---------------------------- MODULE Spec2Model ----------------------------
(***************************************************************************)
(* Model of the signature feature-extraction and verification-scoring      *)
(* engine of chickenScratch (ml-model/):                                   *)
(*   collect_signature_data.py  SignatureDataCollector (extraction)         *)
(*   verify_signature.py        SignatureVerifier (flatten, verify)         *)
(*   ml_api_server.py           load_model / predict / reload_model         *)
(*                                                                         *)
(* Python floats are modelled as fixed-point integers with Scale units per *)
(* 1.0; a division rounds toward zero at that resolution and a square root *)
(* rounds down.  Python dicts are modelled as functions whose DOMAIN is    *)
(* the set of keys, so that a missing key is a key outside the DOMAIN.     *)
(***************************************************************************)
EXTENDS Integers, Sequences, FiniteSets, TLC

(* ----------------------------- bounds --------------------------------- *)
\* Strokes per captured signature.
MaxStrokes == 2
\* Points per signature, over all its strokes.
MaxPoints == 2
\* Point coordinates are drawn from 0..MaxCoord.
MaxCoord == 1
\* Point times and stroke timestamps are drawn from 0..MaxTime.
MaxTime == 1
\* The wall clock (datetime.now()) runs from 0 to MaxClock.
MaxClock == 1
\* Records a collector holds.
MaxSaved == 2
\* Trainings that save a model.
MaxModels == 1
\* Request metrics are drawn from -1..MaxVal.
MaxVal == 2
\* The most records a collector's history holds when it is analysed.
MaxHistory == 3

\* How many names a features file may hold fewer or more than the 19 of
\* the collector.
MaxNameSkew == 2

\* The longest list of strokes among the recordings whose features are
\* compared with their definition.
MaxInputStrokes == 3

\* The training runs of one behaviour.
MaxRuns == 2

\* The most samples a training run finds.
MaxSamples == 11

(* -------------------------- fixed-point numbers ----------------------- *)
\* Units per 1.0 of a modelled float (three decimals).
Scale == 10 * 10 * 10

Abs(a) == IF a < 0 THEN -a ELSE a

Max2(a, b) == IF a >= b THEN a ELSE b

Min2(a, b) == IF a <= b THEN a ELSE b

\* a / b rounded toward zero; b # 0.
Quot(a, b) ==
    IF (a >= 0) = (b > 0) THEN Abs(a) \div Abs(b) ELSE -(Abs(a) \div Abs(b))

\* Python's true division a / b of two numbers, as a fixed-point result:
\* both operands carry the same unit, the result is in Scale units.
TrueDiv(a, b) == Quot(a * Scale, b)

RECURSIVE ISqrt(_)
\* floor(sqrt(n)) for n >= 0.
ISqrt(n) ==
    IF n < 2 THEN n
    ELSE LET r == 2 * ISqrt(n \div 4)
         IN  IF (r + 1) * (r + 1) <= n THEN r + 1 ELSE r

RECURSIVE SqrtRefine(_, _, _)
\* One more decimal digit of a square root per step: r is the root so far,
\* rem the remainder n - r*r at the current resolution.
SqrtRefine(r, rem, k) ==
    IF k = 0 THEN r
    ELSE LET d == CHOOSE e \in 0..9 :
                    /\ 20 * r * e + e * e <= 100 * rem
                    /\ (e = 9 \/ 20 * r * (e + 1) + (e + 1) * (e + 1) > 100 * rem)
         IN  SqrtRefine(10 * r + d, 100 * rem - (20 * r * d + d * d), k - 1)

\* np.sqrt of the integer n, in Scale units (three decimals, rounded down).
SqrtFP(n) == LET r == ISqrt(n) IN SqrtRefine(r, n - r * r, 3)

RECURSIVE SumSeq(_)
SumSeq(s) == IF Len(s) = 0 THEN 0 ELSE Head(s) + SumSeq(Tail(s))

RECURSIVE MaxSeq(_)
MaxSeq(s) == IF Len(s) = 1 THEN s[1] ELSE Max2(Head(s), MaxSeq(Tail(s)))

RECURSIVE MinSeq(_)
MinSeq(s) == IF Len(s) = 1 THEN s[1] ELSE Min2(Head(s), MinSeq(Tail(s)))

\* np.mean of a non-empty sequence of fixed-point numbers.
Mean(s) == Quot(SumSeq(s), Len(s))

\* The largest deviation whose square is summed at full resolution.
StdResolution == 20 * Scale

\* The sample standard deviation (divisor n - 1), 0 for a single value.
SampleStd(s) ==
    LET m == Mean(s)
        dev == [i \in 1..Len(s) |-> Abs(s[i] - m)]
        k == (MaxSeq(dev) \div StdResolution) + 1
        sq == [i \in 1..Len(s) |-> (dev[i] \div k) * (dev[i] \div k)]
    IN  IF Len(s) = 1 THEN 0
        ELSE k * ISqrt(Quot(SumSeq(sq), Len(s) - 1))

\* np.std of a non-empty sequence: the population standard deviation.
\* Deviations above StdResolution are squared at a coarser resolution k,
\* which keeps more than four significant digits.
Std(s) ==
    LET m == Mean(s)
        dev == [i \in 1..Len(s) |-> Abs(s[i] - m)]
        k == (MaxSeq(dev) \div StdResolution) + 1
        sq == [i \in 1..Len(s) |-> (dev[i] \div k) * (dev[i] \div k)]
    IN  k * ISqrt(Quot(SumSeq(sq), Len(s)))

(* ------------------------------ dicts --------------------------------- *)
\* dict.get(key, default)
Get(d, key, default) == IF key \in DOMAIN d THEN d[key] ELSE default

\* The absent value: Python's None, and a variable that holds no result yet.
None == [tag |-> "None"]


\* What a call leaves behind when it raises the exception exc.
Raised(exc) == [raised |-> exc]

IsRaised(r) == "raised" \in DOMAIN r

(* --------------- SignatureDataCollector: feature extraction ----------- *)
\* stroke.get('points', [])
PointsOf(stroke) == Get(stroke, "points", <<>>)

\* The strokes whose points cannot be indexed: missing or empty.
MissingOrEmptyPoints(strokes) ==
    {i \in 1..Len(strokes) :
        "points" \notin DOMAIN strokes[i] \/ Len(strokes[i]["points"]) = 0}

\* The strokes whose stroke['points'] lookup raises KeyError.
MissingPoints(strokes) ==
    {i \in 1..Len(strokes) : "points" \notin DOMAIN strokes[i]}

HasStrokesUnguarded(strokes) == TRUE

\* `if strokes`: the guard of total_points / len(strokes).
HasStrokes(strokes) == Len(strokes) > 0

\* The stroke after the first, or the first when it is alone.
SecondStroke(strokes) == strokes[Min2(2, Len(strokes))]

\* strokes[-1] of a non-empty list.
LastStroke(strokes) == strokes[Len(strokes)]

calculate_basic_stats(strokes) ==
    LET total_points ==
            SumSeq([i \in 1..Len(strokes) |-> Len(strokes[i]["points"])])
        total_duration ==
            IF /\ Len(strokes) > 0
               /\ "startTime" \in DOMAIN strokes[1]
               /\ "endTime" \in DOMAIN LastStroke(strokes)
            THEN LastStroke(strokes)["endTime"] - strokes[1]["startTime"]
            ELSE 0
    IN  [stroke_count |-> Len(strokes) * Scale,
         total_points |-> total_points * Scale,
         total_duration_ms |-> total_duration * Scale,
         average_points_per_stroke |->
            IF HasStrokes(strokes)
            THEN TrueDiv(total_points, Len(strokes))
            ELSE 0]

\* np.sqrt((p2.x - p1.x)**2 + (p2.y - p1.y)**2)
Distance(p1, p2) ==
    SqrtFP((p2["x"] - p1["x"]) * (p2["x"] - p1["x"])
           + (p2["y"] - p1["y"]) * (p2["y"] - p1["y"]))

\* A divisor that takes the time between two points without its sign.
TimeDiffMagnitude(p1, p2) ==
    IF "time" \in DOMAIN p1 /\ "time" \in DOMAIN p2
    THEN Max2(Abs(p2["time"] - p1["time"]), 1)
    ELSE 1

\* The divisor of a velocity sample.
TimeDiff(p1, p2) ==
    IF "time" \in DOMAIN p1 /\ "time" \in DOMAIN p2
    THEN Max2(p2["time"] - p1["time"], 1)
    ELSE 1

\* Velocity samples in which a stroke without points counts as one sample
\* of 0.
StrokeVelocitiesZeroForEmpty(points) ==
    IF Len(points) = 0 THEN <<0>>
    ELSE [i \in 1..(Len(points) - 1) |->
            Quot(Distance(points[i], points[i + 1]),
                 TimeDiff(points[i], points[i + 1]))]

\* The velocity samples of one stroke: one per pair of consecutive points.
StrokeVelocities(points) ==
    [i \in 1..(Len(points) - 1) |->
        Quot(Distance(points[i], points[i + 1]),
             TimeDiff(points[i], points[i + 1]))]

RECURSIVE Velocities(_)
\* The pool of velocity samples of all strokes.
Velocities(strokes) ==
    IF Len(strokes) = 0 THEN <<>>
    ELSE StrokeVelocities(PointsOf(Head(strokes))) \o Velocities(Tail(strokes))

calculate_velocity_features(strokes) ==
    LET velocities == Velocities(strokes)
    IN  IF Len(velocities) > 0
        THEN [average_velocity |-> Mean(velocities),
              max_velocity |-> MaxSeq(velocities),
              min_velocity |-> MinSeq(velocities),
              velocity_std |-> Std(velocities)]
        ELSE [average_velocity |-> 0,
              max_velocity |-> 0,
              min_velocity |-> 0,
              velocity_std |-> 0]

RECURSIVE AllPoints(_)
\* The points of all strokes, in order.
AllPoints(strokes) ==
    IF Len(strokes) = 0 THEN <<>>
    ELSE PointsOf(Head(strokes)) \o AllPoints(Tail(strokes))

\* `if height > 0`: the guard of width / height.
HasHeight(height) == height > 0

\* points_array.min(axis=0), one axis.
BoxMinFromOrigin(values) == Min2(0, MinSeq(values))

BoxMin(values) == MinSeq(values)

\* The coordinate of the last point instead of the largest.
BoxMaxLast(values) == values[Len(values)]

\* points_array.max(axis=0), one axis.
BoxMax(values) == MaxSeq(values)

calculate_shape_features(strokes) ==
    LET all_points == AllPoints(strokes)
        xs == [i \in 1..Len(all_points) |-> all_points[i]["x"]]
        ys == [i \in 1..Len(all_points) |-> all_points[i]["y"]]
    IN  IF Len(all_points) = 0
        THEN [width |-> 0, height |-> 0, area |-> 0, aspect_ratio |-> 0]
        ELSE LET min_x == BoxMin(xs)
                 max_x == BoxMax(xs)
                 min_y == BoxMin(ys)
                 max_y == BoxMax(ys)
                 width == max_x - min_x
                 height == max_y - min_y
             IN  [width |-> width * Scale,
                  height |-> height * Scale,
                  area |-> width * height * Scale,
                  aspect_ratio |->
                     IF HasHeight(height) THEN TrueDiv(width, height) ELSE 0,
                  center_x |-> TrueDiv(min_x + max_x, 2),
                  center_y |-> TrueDiv(min_y + max_y, 2)]

\* The length of one stroke: the sum of the distances of consecutive points.
StrokeLength(points) ==
    SumSeq([i \in 1..(Len(points) - 1) |-> Distance(points[i], points[i + 1])])

RECURSIVE StrokeLengths(_)
\* stroke_lengths: the length of every stroke, in order.
StrokeLengths(strokes) ==
    IF Len(strokes) = 0 THEN <<>>
    ELSE <<StrokeLength(PointsOf(Head(strokes)))>> \o StrokeLengths(Tail(strokes))

RECURSIVE StrokeDurations(_)
\* endTime - startTime of the strokes that carry both timestamps.
StrokeDurations(strokes) ==
    IF Len(strokes) = 0 THEN <<>>
    ELSE LET stroke == Head(strokes)
         IN  (IF "startTime" \in DOMAIN stroke /\ "endTime" \in DOMAIN stroke
              THEN <<(stroke["endTime"] - stroke["startTime"]) * Scale>>
              ELSE <<>>)
             \o StrokeDurations(Tail(strokes))

\* A guard that asks for more than one duration.
HasSeveralDurations(stroke_durations) == Len(stroke_durations) > 1

\* `if stroke_durations`
HasDurations(stroke_durations) == Len(stroke_durations) > 0

calculate_stroke_features(strokes) ==
    LET stroke_lengths == StrokeLengths(strokes)
        stroke_durations == StrokeDurations(strokes)
        features ==
            [average_stroke_length |->
                IF Len(stroke_lengths) > 0 THEN Mean(stroke_lengths) ELSE 0,
             total_length |-> SumSeq(stroke_lengths),
             length_variation |->
                IF Len(stroke_lengths) > 0 THEN Std(stroke_lengths) ELSE 0]
    IN  IF HasDurations(stroke_durations)
        THEN features @@
             [average_stroke_duration |-> Mean(stroke_durations),
              duration_variation |-> Std(stroke_durations)]
        ELSE features

\* The divisions of an extraction whose divisor is 0.
DivisionsByZero(strokes) ==
    LET all_points == AllPoints(strokes)
        ys == [i \in 1..Len(all_points) |-> all_points[i]["y"]]
    IN  (IF HasStrokes(strokes) /\ Len(strokes) = 0
         THEN {"average_points_per_stroke"} ELSE {})
        \cup
        (IF \E s \in 1..Len(strokes) :
               \E i \in 1..(Len(PointsOf(strokes[s])) - 1) :
                  TimeDiff(PointsOf(strokes[s])[i],
                           PointsOf(strokes[s])[i + 1]) = 0
         THEN {"velocity"} ELSE {})
        \cup
        (IF /\ Len(all_points) > 0
            /\ HasHeight(BoxMax(ys) - BoxMin(ys))
            /\ BoxMax(ys) - BoxMin(ys) = 0
         THEN {"aspect_ratio"} ELSE {})

\* process_signature with the duration of a signature that carries no
\* usable timestamps taken from the clock.
process_signature_clocked(self_signatures, signature_data, now) ==
    LET strokes == Get(signature_data, "strokes", <<>>)
        basic == calculate_basic_stats(strokes)
    IN  IF MissingPoints(strokes) # {} THEN Raised("KeyError")
        ELSE [timestamp |-> now,
              basic_stats |->
                 [basic EXCEPT !["total_duration_ms"] =
                                  IF @ = 0 THEN now * Scale ELSE @],
              velocity_features |-> calculate_velocity_features(strokes),
              shape_features |-> calculate_shape_features(strokes),
              stroke_features |-> calculate_stroke_features(strokes)]

\* self.process_signature(signature_data) called on the collector whose
\* self.signatures is self_signatures, when datetime.now() returns now: the
\* feature record, or the exception the call ends with.
process_signature(self_signatures, signature_data, now) ==
    LET strokes == Get(signature_data, "strokes", <<>>)
    IN  IF MissingPoints(strokes) # {} THEN Raised("KeyError")
        ELSE IF "average_points_per_stroke" \in DivisionsByZero(strokes)
        THEN Raised("ZeroDivisionError")
        ELSE [timestamp |-> now,
              basic_stats |-> calculate_basic_stats(strokes),
              velocity_features |-> calculate_velocity_features(strokes),
              shape_features |-> calculate_shape_features(strokes),
              stroke_features |-> calculate_stroke_features(strokes)]

(* ---------- SignatureDataCollector: analyze_consistency --------------- *)
\* The records of user_id whatever their type.
UserSignaturesAnyType(self_signatures, user_id) ==
    SelectSeq(self_signatures, LAMBDA s : s["user_id"] = user_id)

\* The records of self_signatures saved for user_id with type 'genuine'.
UserSignatures(self_signatures, user_id) ==
    SelectSeq(self_signatures,
              LAMBDA s : s["user_id"] = user_id /\ s["type"] = "genuine")

\* The str analyze_consistency returns for fewer than 2 signatures.
NeedMoreData == [str |-> "Need at least 2 signatures to analyze consistency"]

\* `if len(user_signatures) < 3`
TooFewBelowThree(user_signatures) == Len(user_signatures) < 3

\* `if len(user_signatures) < 2`
TooFew(user_signatures) == Len(user_signatures) < 2

\* The coefficient of variation itself, not its complement.
Variation(values) ==
    IF Mean(values) > 0 THEN TrueDiv(Std(values), Mean(values)) ELSE 0

\* The coefficient of variation added to 1 instead of taken from it.
ConsistencyMirrored(values) ==
    Scale + (IF Mean(values) > 0
             THEN TrueDiv(Std(values), Mean(values))
             ELSE 0)

\* 1 - (np.std(values) / np.mean(values) if np.mean(values) > 0 else 0)
Consistency(values) ==
    Scale - (IF Mean(values) > 0
             THEN TrueDiv(Std(values), Mean(values))
             ELSE 0)

\* self.analyze_consistency(user_id) on the collector whose self.signatures
\* is self_signatures.  sample_count is a plain count.
analyze_consistency(self_signatures, user_id) ==
    LET user_signatures == UserSignatures(self_signatures, user_id)
        n == Len(user_signatures)
        velocities ==
            [i \in 1..n |->
               user_signatures[i]["features"]["velocity_features"]["average_velocity"]]
        stroke_counts ==
            [i \in 1..n |->
               user_signatures[i]["features"]["basic_stats"]["stroke_count"]]
        areas ==
            [i \in 1..n |->
               user_signatures[i]["features"]["shape_features"]["area"]]
    IN  IF TooFew(user_signatures)
        THEN NeedMoreData
        ELSE [velocity_consistency |-> Consistency(velocities),
              stroke_count_consistency |-> Consistency(stroke_counts),
              area_consistency |-> Consistency(areas),
              sample_count |-> n]

\* The handler of GET /api/user-metrics/<user_id> of the Redundant
\* api_server.py on the collector whose self.signatures is self_signatures:
\* analysis.get raises AttributeError when analyze_consistency returned its
\* str, and the except branch answers 500.
get_user_metrics(self_signatures, user_id, now) ==
    LET analysis == analyze_consistency(self_signatures, user_id)
    IN  IF analysis = NeedMoreData
        THEN [error |-> "AttributeError", userId |-> user_id,
              status_code |-> 500]
        ELSE [userId |-> user_id,
              sampleCount |-> Get(analysis, "sample_count", 0),
              consistency |-> Get(analysis, "consistency_score", 0),
              avgDuration |-> Get(analysis, "avg_duration", 0),
              avgStrokes |-> Get(analysis, "avg_strokes", 0),
              variability |->
                 [duration |-> Get(analysis, "duration_std", 0),
                  strokes |-> Get(analysis, "stroke_count_std", 0),
                  velocity |-> Get(analysis, "velocity_std", 0)],
              lastSeen |-> now,
              status |-> IF Get(analysis, "sample_count", 0) >= 3
                         THEN "active" ELSE "needs_training",
              status_code |-> 200]

(* ------------------- SignatureVerifier: flattening --------------------- *)
\* `-1 if x is None else x`: a null marked with a sentinel.
NoneToSentinel(x) == IF ToString(x) = ToString(None) THEN -1 ELSE x

\* `0 if x is None else x`
NoneToZero(x) == IF ToString(x) = ToString(None) THEN 0 ELSE x

flatten_features(features_dict) ==
    LET basic == Get(features_dict, "basic_stats", <<>>)
        velocity == Get(features_dict, "velocity_features", <<>>)
        shape == Get(features_dict, "shape_features", <<>>)
        stroke == Get(features_dict, "stroke_features", <<>>)
        flat_features ==
            << Get(basic, "stroke_count", 0),
               Get(basic, "total_points", 0),
               Get(basic, "total_duration_ms", 0),
               Get(basic, "average_points_per_stroke", 0),
               Get(velocity, "average_velocity", 0),
               Get(velocity, "max_velocity", 0),
               Get(velocity, "min_velocity", 0),
               Get(velocity, "velocity_std", 0),
               Get(shape, "width", 0),
               Get(shape, "height", 0),
               Get(shape, "area", 0),
               Get(shape, "aspect_ratio", 0),
               Get(shape, "center_x", 0),
               Get(shape, "center_y", 0),
               Get(stroke, "average_stroke_length", 0),
               Get(stroke, "total_length", 0),
               Get(stroke, "length_variation", 0),
               Get(stroke, "average_stroke_duration", 0),
               Get(stroke, "duration_variation", 0) >>
    IN  [i \in 1..Len(flat_features) |-> NoneToZero(flat_features[i])]


(* ----------------- ml_api_server: load_model, predict ------------------ *)
\* The feature names the trainer stores in latest_model_info.json.
FeatureNames ==
    << "stroke_count", "total_points", "total_duration_ms",
       "avg_points_per_stroke", "avg_velocity", "max_velocity",
       "min_velocity", "velocity_std", "width", "height", "area",
       "aspect_ratio", "center_x", "center_y", "avg_stroke_length",
       "total_length", "length_variation", "avg_stroke_duration",
       "duration_variation" >>

CountFeaturesStrokeOnly == {"stroke_count"}

\* The features whose diff is the absolute difference.
CountFeatures == {"stroke_count", "total_points"}

\* DiffFeature with the relative difference taken against the current value.
DiffFeatureByCurrent(feature_name, stored_metrics, current_metrics) ==
    LET stored_val == Get(stored_metrics, feature_name, 0)
        current_val == Get(current_metrics, feature_name, 0)
        diff == Abs(current_val - stored_val)
        rel_diff ==
            IF current_val # 0
            THEN Abs(TrueDiv(current_val - stored_val, current_val))
            ELSE IF stored_val # 0 THEN Scale ELSE 0
    IN  IF feature_name \in CountFeatures THEN diff ELSE rel_diff

\* DiffFeature with the absolute value taken of the difference only, not of
\* the quotient.
DiffFeatureSigned(feature_name, stored_metrics, current_metrics) ==
    LET stored_val == Get(stored_metrics, feature_name, 0)
        current_val == Get(current_metrics, feature_name, 0)
        diff == Abs(current_val - stored_val)
        rel_diff ==
            IF stored_val # 0
            THEN TrueDiv(Abs(current_val - stored_val), stored_val)
            ELSE IF current_val # 0 THEN Scale ELSE 0
    IN  IF feature_name \in CountFeatures THEN diff ELSE rel_diff

\* One entry of the diff vector of predict.
DiffFeature(feature_name, stored_metrics, current_metrics) ==
    LET stored_val == Get(stored_metrics, feature_name, 0)
        current_val == Get(current_metrics, feature_name, 0)
        diff == Abs(current_val - stored_val)
        rel_diff ==
            IF stored_val # 0
            THEN Abs(TrueDiv(current_val - stored_val, stored_val))
            ELSE IF current_val # 0 THEN Scale ELSE 0
    IN  IF feature_name \in CountFeatures THEN diff ELSE rel_diff

\* The list `features` of predict: one diff per loaded feature name.
DiffVector(names, stored_metrics, current_metrics) ==
    [i \in 1..Len(names) |->
        DiffFeature(names[i], stored_metrics, current_metrics)]

\* The confidence as the larger of the two probabilities.
ConfidenceScoreMax(prediction, probability) ==
    Max2(probability[1], probability[2]) * 100

\* The confidence with the forgery branch's subtraction turned around.
ConfidenceScoreSigned(prediction, probability) ==
    IF prediction = 1
    THEN probability[2] * 100
    ELSE (probability[1] - Scale) * 100

\* confidence_score of predict, from model.predict and model.predict_proba.
ConfidenceScore(prediction, probability) ==
    IF prediction = 1
    THEN probability[2] * 100
    ELSE (Scale - probability[1]) * 100

\* RandomForestClassifier.predict: the class of the larger probability, the
\* first class (0, forgery) on a tie.
ForestPredict(probability) ==
    IF probability[2] > probability[1] THEN 1 ELSE 0

\* An except branch that answers with a default verdict.
PredictFailureDefault(exc) ==
    [success |-> TRUE, prediction |-> 1, confidence_score |-> 0,
     is_genuine |-> TRUE, status |-> 200]

\* A success response with a feature_diffs entry, left empty.
PredictSuccessDiagnostic(prediction, confidence_score, probability) ==
    [success |-> TRUE,
     prediction |-> prediction,
     confidence_score |-> confidence_score,
     is_genuine |-> (prediction = 1),
     probabilities |-> [forgery |-> probability[1],
                        genuine |-> probability[2]],
     feature_diffs |-> <<>>,
     status |-> 200]

\* The 200 response of predict.
PredictSuccess(prediction, confidence_score, probability) ==
    [success |-> TRUE,
     prediction |-> prediction,
     confidence_score |-> confidence_score,
     is_genuine |-> (prediction = 1),
     probabilities |-> [forgery |-> probability[1],
                        genuine |-> probability[2]],
     status |-> 200]

\* The 500 response of predict's except branch.
PredictFailure(exc) ==
    [success |-> FALSE, error |-> exc, confidence_score |-> 0, status |-> 500]

\* The handler of POST /api/predict on the request body data, with the
\* globals model_g, scaler_g and names_g.  classifier says how the loaded
\* classifier behaves on the diff vector: which of its calls raises, if any,
\* and what predict_proba returns.  The result holds the response, the
\* classifier calls made, and the diff vector built.
predict(data, model_g, scaler_g, names_g, classifier) ==
    IF "stored_features" \notin DOMAIN data
    THEN [response |-> PredictFailure("KeyError"),
          calls |-> <<>>, features |-> None]
    ELSE IF "current_features" \notin DOMAIN data
    THEN [response |-> PredictFailure("KeyError"),
          calls |-> <<>>, features |-> None]
    ELSE IF names_g = None
    THEN [response |-> PredictFailure("TypeError"),
          calls |-> <<>>, features |-> None]
    ELSE
    LET features == DiffVector(names_g["names"], data["stored_features"],
                               data["current_features"])
        outcome == classifier["raises"]
        probability == classifier["probability"]
        prediction == ForestPredict(probability)
        confidence_score == ConfidenceScore(prediction, probability)
    IN  IF scaler_g = None
        THEN [response |-> PredictFailure("AttributeError"),
              calls |-> <<>>, features |-> features]
        ELSE IF outcome = "transform"
        THEN [response |-> PredictFailure("ValueError"),
              calls |-> <<"transform">>, features |-> features]
        ELSE IF model_g = None
        THEN [response |-> PredictFailure("AttributeError"),
              calls |-> <<"transform">>, features |-> features]
        ELSE IF outcome = "predict"
        THEN [response |-> PredictFailure("ValueError"),
              calls |-> <<"transform", "predict">>, features |-> features]
        ELSE IF outcome = "predict_proba"
        THEN [response |-> PredictFailure("ValueError"),
              calls |-> <<"transform", "predict", "predict_proba">>,
              features |-> features]
        ELSE [response |->
                PredictSuccess(prediction, confidence_score, probability),
              calls |-> <<"transform", "predict", "predict_proba">>,
              features |-> features]

\* A load that keeps the model it has unpickled when the scaler cannot be
\* opened.
load_model_partial(dir) ==
    LET model_info == dir["info"]
    IN  IF model_info = None THEN <<None, None, None>>
        ELSE IF model_info["model_path"] \notin dir["files"]
        THEN <<None, None, None>>
        ELSE IF model_info["scaler_path"] \notin dir["files"]
        THEN <<[pickle |-> model_info["model_path"]], None, None>>
        ELSE << [pickle |-> model_info["model_path"]],
                [pickle |-> model_info["scaler_path"]],
                [names |-> model_info["feature_names"],
                 timestamp |-> model_info["timestamp"]] >>

\* load_model() on the models directory dir: <<model, scaler, feature_names>>,
\* each tagged with the timestamp of the files it was read from, or three
\* None when any step of the load raises.
load_model(dir) ==
    LET model_info == dir["info"]
    IN  IF model_info = None THEN <<None, None, None>>
        ELSE IF model_info["model_path"] \notin dir["files"]
        THEN <<None, None, None>>
        ELSE IF model_info["scaler_path"] \notin dir["files"]
        THEN <<None, None, None>>
        ELSE << [pickle |-> model_info["model_path"]],
                [pickle |-> model_info["scaler_path"]],
                [names |-> model_info["feature_names"],
                 timestamp |-> model_info["timestamp"]] >>

(* -------------- SignatureVerifier: load and verify_signature ----------- *)
\* The timestamps of the signature_model_*.h5 files of dir.
H5Timestamps(dir) == {f[2] : f \in {g \in dir["files"] : g[1] = "model_h5"}}

SetMax(S) == CHOOSE m \in S : \A n \in S : n <= m

\* The list json.load reads from features_<timestamp>.json: what the
\* trainer that wrote the file held as feature_names.
FeaturesFile(dir) == Get(dir, "names", FeatureNames)

\* SignatureVerifier(): load_latest_model on dir.  The verifier's model,
\* scaler and feature_names, or the exception the constructor ends with.
load_latest_model(dir) ==
    IF H5Timestamps(dir) = {}
    THEN Raised("Exception")
    ELSE LET timestamp == SetMax(H5Timestamps(dir))
         IN  IF <<"scaler", timestamp>> \notin dir["files"]
             THEN Raised("FileNotFoundError")
             ELSE IF <<"features", timestamp>> \notin dir["files"]
             THEN Raised("FileNotFoundError")
             ELSE [model |-> <<"model_h5", timestamp>>,
                   scaler |-> <<"scaler", timestamp>>,
                   feature_names |-> FeaturesFile(dir)]

\* A pad that appends zeros but never drops an entry.
PadOnly(flat_features, n) ==
    IF Len(flat_features) < n
    THEN flat_features \o [i \in 1..(n - Len(flat_features)) |-> 0]
    ELSE flat_features

\* Lines 114-119 of verify_signature: pad with zeros or truncate to n.
PadOrTruncate(flat_features, n) ==
    IF Len(flat_features) < n
    THEN flat_features \o [i \in 1..(n - Len(flat_features)) |-> 0]
    ELSE SubSeq(flat_features, 1, n)

\* The decision threshold reported in the analysis, in percent.
Threshold == 50

\* Verdict with `prediction >= 0.5`.
VerdictAtLeastHalf(feature_names, flat_features, prediction) ==
    LET confidence == prediction * 100
        is_genuine == 2 * prediction >= Scale
    IN  [is_genuine |-> is_genuine,
         confidence |-> confidence,
         analysis |->
            [is_genuine |-> is_genuine,
             confidence |-> confidence,
             threshold |-> Threshold * Scale,
             features |-> [i \in 1..Min2(Len(feature_names), Len(flat_features))
                             |-> <<feature_names[i], flat_features[i]>>],
             verdict |-> IF is_genuine THEN "GENUINE" ELSE "FORGERY DETECTED"]]

\* verifier.verify_signature(signature_data, user): the last lines, from the
\* network's output prediction (a sigmoid, 0..Scale) on.
Verdict(feature_names, flat_features, prediction) ==
    LET confidence == prediction * 100
        is_genuine == 2 * prediction > Scale
    IN  [is_genuine |-> is_genuine,
         confidence |-> confidence,
         analysis |->
            [is_genuine |-> is_genuine,
             confidence |-> confidence,
             threshold |-> Threshold * Scale,
             features |-> [i \in 1..Min2(Len(feature_names), Len(flat_features))
                             |-> <<feature_names[i], flat_features[i]>>],
             verdict |-> IF is_genuine THEN "GENUINE" ELSE "FORGERY DETECTED"]]

\* verifier.verify_signature(signature_data, user) on a loaded verifier:
\* the vector handed to the scaler (None when the call ends before), the
\* classifier calls made, and the result or the exception raised.
verify_signature(verifier, signature_data, now, classifier) ==
    LET outcome == classifier["raises"]
        prediction == classifier["prediction"]
        f == process_signature(<<>>, signature_data, now)
        flat_features ==
            PadOrTruncate(flatten_features(f), Len(verifier["feature_names"]))
    IN  IF IsRaised(f)
        THEN [result |-> f, calls |-> <<>>, vector |-> None]
        ELSE IF outcome = "transform"
        THEN [result |-> Raised("ValueError"),
              calls |-> <<"transform">>,
              vector |-> flat_features]
        ELSE IF outcome = "predict"
        THEN [result |-> Raised("ValueError"),
              calls |-> <<"transform", "predict">>,
              vector |-> flat_features]
        ELSE [result |-> Verdict(verifier["feature_names"], flat_features,
                                 prediction),
              calls |-> <<"transform", "predict">>,
              vector |-> flat_features]

\* The handler of POST /api/verify-ml: a new SignatureVerifier on dir, then
\* verify_signature.  classifier says which classifier call raises, if any,
\* and what the network returns.
verify_with_ml(dir, signature_data, now, classifier) ==
    LET verifier == load_latest_model(dir)
        r == verify_signature(verifier, signature_data, now, classifier)
        v == r["result"]
    IN  IF IsRaised(verifier)
        THEN [response |-> [success |-> FALSE, error |-> verifier["raised"],
                            status |-> 500],
              calls |-> <<>>]
        ELSE IF IsRaised(v)
        THEN [response |-> [success |-> FALSE, error |-> v["raised"],
                            status |-> 500],
              calls |-> r["calls"]]
        ELSE [response |-> [success |-> TRUE,
                            is_genuine |-> v["is_genuine"],
                            confidence |-> v["confidence"],
                            analysis |-> v["analysis"],
                            status |-> 200],
              calls |-> r["calls"]]

(* ============================== state ================================= *)
VARIABLES
    sig,        \* the signature dict being captured / handed to extraction
    first,      \* what an earlier extraction returned (the first of sig, or
                \* the one before sig was extended), or None
    features,   \* what the latest extraction of sig returned, or None
    flat,       \* flatten_features of the latest feature record, or None
    clock,      \* the wall clock datetime.now() reads
    signatures, \* SignatureDataCollector.signatures: the saved records
    report,     \* the last analyze_consistency call: its user and result
    data_dir,   \* the data/ directory: the records written to its files
    model,          \* ml_api_server's global model, or None
    scaler,         \* ml_api_server's global scaler, or None
    feature_names,  \* ml_api_server's global feature_names, or None
    models_dir,     \* the models/ directory: its files and the info record
    trainer,        \* where a running save_model stands
    handled,        \* the endpoint that handled the last request
    request,        \* the body of the last request
    response,       \* the response to the last request
    calls,          \* the classifier calls made for the last request
    diffs,          \* the diff vector built for the last request
    threads         \* the predict and the reload-model request in flight:
                    \* where each stands and what it has read so far

\* A predict request that has not started.
IdlePredict ==
    [pc |-> "idle", data |-> None, classifier |-> None, read |-> {},
     names |-> None, features |-> None, scaler |-> None, model |-> None,
     model_proba |-> None, response |-> None, calls |-> <<>>]

\* No request in flight.
IdleThreads == [predict |-> IdlePredict, reload |-> [pc |-> "idle"]]

collectorVars == <<sig, first, features, flat, clock, signatures, report, data_dir>>

serverVars == <<model, scaler, feature_names, models_dir, trainer,
                handled, request, response, calls, diffs, threads>>

vars == <<sig, first, features, flat, clock, signatures, report, data_dir,
          model, scaler,
          feature_names, models_dir, trainer, handled, request, response,
          calls, diffs, threads>>

(* ------------------------- capture inputs ----------------------------- *)
Coords == 0..MaxCoord

Times == 0..MaxTime

\* A point: x and y, and optionally time.
PointSet ==
    [x : Coords, y : Coords] \cup [x : Coords, y : Coords, time : Times]

\* The timestamps a stroke may carry: none, either one, or both.
StampSet ==
    {<<>>}
    \cup [startTime : Times]
    \cup [endTime : Times]
    \cup [startTime : Times, endTime : Times]

Users == {"u1", "u2"}

Types == {"genuine", "forgery"}

StrokesOf(s) == Get(s, "strokes", <<>>)

TotalPoints(strokes) ==
    SumSeq([i \in 1..Len(strokes) |-> Len(PointsOf(strokes[i]))])

\* The example signature of collect_signature_data.py: one stroke of three
\* points, 100 ms long.
ExampleSignature ==
    [strokes |->
        << [points |-> << [x |-> 100, y |-> 100, time |-> 0],
                          [x |-> 150, y |-> 120, time |-> 50],
                          [x |-> 200, y |-> 130, time |-> 100] >>,
            startTime |-> 0,
            endTime |-> 100] >>]

\* The signatures handed to a collector: no stroke, the example, a dot, and
\* two strokes of which one carries no timestamps.
SampleSignatures ==
    { [strokes |-> <<>>],
      ExampleSignature,
      [strokes |-> << [points |-> << [x |-> 5, y |-> 5, time |-> 0] >>,
                       startTime |-> 0, endTime |-> 0] >>],
      [strokes |->
        << [points |-> << [x |-> 0, y |-> 0, time |-> 0],
                          [x |-> 3, y |-> 4, time |-> 10] >>,
            startTime |-> 0, endTime |-> 10],
           [points |-> << [x |-> 3, y |-> 0], [x |-> 3, y |-> 4] >>] >>] }

\* Strokes with no point or one, and any timestamps.
StampedStrokes ==
    {[points |-> ps] @@ stamps :
        ps \in {<<>>, << [x |-> 1, y |-> 2, time |-> 0] >>},
        stamps \in StampSet}

\* Point lists of a stroke: none, one, two and three points, with rising,
\* equal and falling times, without times, on one horizontal line, and
\* left of and below the origin.
PointLists ==
    { <<>>,
      << [x |-> 0, y |-> 0, time |-> 0] >>,
      << [x |-> 0, y |-> 0, time |-> 0], [x |-> 3, y |-> 4, time |-> 10] >>,
      << [x |-> 3, y |-> 4, time |-> 10], [x |-> 0, y |-> 0, time |-> 0] >>,
      << [x |-> 3, y |-> 4, time |-> 10], [x |-> 6, y |-> 8, time |-> 10] >>,
      << [x |-> 0, y |-> 0, time |-> 0], [x |-> 3, y |-> 4, time |-> 10],
         [x |-> 6, y |-> 8, time |-> 10] >>,
      << [x |-> 0, y |-> 0, time |-> 0], [x |-> 3, y |-> 0, time |-> 10] >>,
      << [x |-> 3, y |-> 0], [x |-> 0, y |-> 4] >>,
      << [x |-> -3, y |-> -4, time |-> 5], [x |-> 3, y |-> 4, time |-> 10] >> }

\* Strokes without timestamps, one for each of the point lists.
DrawnStrokes == {[points |-> ps] : ps \in PointLists}

\* The recordings whose features are compared with their definition: up to
\* MaxInputStrokes stamped strokes, up to MaxInputStrokes - 1 drawn
\* strokes, and the example.
FeatureInputs ==
    {[strokes |-> strokes] :
        strokes \in UNION {[1..n -> StampedStrokes] : n \in 0..MaxInputStrokes}}
    \cup
    {[strokes |-> strokes] :
        strokes \in UNION {[1..n -> DrawnStrokes] :
                              n \in 1..(MaxInputStrokes - 1)}}
    \cup {ExampleSignature}

\* The signatures sent for verification.
VerifyRequests == {[strokes |-> <<>>], ExampleSignature}

(* --------------------------- capture steps ---------------------------- *)
\* The capture starts with an explicit, empty list of strokes.
StartCapture ==
    /\ features = None
    /\ sig = <<>>
    /\ sig' = [strokes |-> <<>>]
    /\ UNCHANGED <<first, features, flat, clock, signatures, report, data_dir>>
    /\ UNCHANGED serverVars

\* A pen-down: a new stroke with no points yet, with any timestamps.  A
\* stroke dict may also come without its 'points' key.
BeginStroke ==
    /\ features = None
    /\ Len(StrokesOf(sig)) < MaxStrokes
    /\ \E stamps \in StampSet, withPoints \in BOOLEAN :
          LET stroke == IF withPoints THEN [points |-> <<>>] @@ stamps
                        ELSE stamps
          IN  sig' = [strokes |-> Append(StrokesOf(sig), stroke)]
    /\ UNCHANGED <<first, features, flat, clock, signatures, report, data_dir>>
    /\ UNCHANGED serverVars

\* A pen move: one more point on the stroke being drawn.
AddPoint ==
    /\ features = None
    /\ Len(StrokesOf(sig)) > 0
    /\ "points" \in DOMAIN sig["strokes"][Len(sig["strokes"])]
    /\ TotalPoints(sig["strokes"]) < MaxPoints
    /\ \E p \in PointSet :
          LET n == Len(sig["strokes"])
              stroke == sig["strokes"][n]
          IN  sig' = [strokes |->
                        [sig["strokes"] EXCEPT
                           ![n] = [stroke EXCEPT
                                     !["points"] = Append(stroke["points"], p)]]]
    /\ UNCHANGED <<first, features, flat, clock, signatures, report, data_dir>>
    /\ UNCHANGED serverVars

(* -------------------------- collector steps --------------------------- *)
\* What an extraction of the signature s leaves in sig, first, features and
\* flat: first keeps the result of the first of the extractions of s that
\* follow one another.
Extracted(s, f) ==
    /\ sig' = s
    /\ features' = f
    /\ first' = IF sig = s /\ first # None THEN first ELSE f
    /\ flat' = IF IsRaised(f) THEN None ELSE flatten_features(f)

\* A process_signature that also keeps what it processed.
ProcessRecording(s) ==
    /\ Extracted(s, process_signature(signatures, s, clock))
    /\ signatures' =
          Append(signatures,
                 [user_id |-> "unknown", type |-> "genuine", raw_data |-> s,
                  features |-> process_signature(signatures, s, clock)])
    /\ UNCHANGED <<clock, report, data_dir>>
    /\ UNCHANGED serverVars

\* features = collector.process_signature(s), then _flatten_features.
Process(s) ==
    /\ Extracted(s, process_signature(signatures, s, clock))
    /\ UNCHANGED <<clock, signatures, report, data_dir>>
    /\ UNCHANGED serverVars

\* Whether line 175 is reached, the record appended to self.signatures:
\* process_signature has returned.  The file is written after that.
Appended(f, disk) == ~IsRaised(f)

\* collector.save_signature(s, user_id, signature_type) with the data
\* directory behaving as disk ("ok", or the exception that os.makedirs,
\* open or json.dump raises): what the call leaves in the collector and in
\* data/.
SaveOn(signature_data, user_id, signature_type, disk) ==
    LET f == process_signature(signatures, signature_data, clock)
        record == [user_id |-> user_id,
                   type |-> signature_type,
                   raw_data |-> signature_data,
                   features |-> f]
        outcome == IF IsRaised(f) \/ disk = "ok" THEN f ELSE Raised(disk)
    IN  /\ Extracted(signature_data, outcome)
        /\ signatures' = IF Appended(f, disk) THEN Append(signatures, record)
                         ELSE signatures
        /\ data_dir' = IF IsRaised(outcome) THEN data_dir
                       ELSE Append(data_dir, record)

\* collector.save_signature(s, user_id, signature_type) with a writable
\* data directory: the record is appended once process_signature has
\* returned; an exception of process_signature leaves the list as it was.
save_signature(signature_data, user_id, signature_type) ==
    /\ SaveOn(signature_data, user_id, signature_type, "ok")
    /\ UNCHANGED <<clock, report>>
    /\ UNCHANGED serverVars

\* The captured signature is processed, once.
Extract ==
    /\ features = None
    /\ Process(sig)

\* The list seq with e put after its first k entries.
InsertAt(seq, k, e) == SubSeq(seq, 1, k) \o <<e>> \o SubSeq(seq, k + 1, Len(seq))

\* The strokes without points that a recording may be extended with: with
\* and without timestamps.
EmptyStrokes ==
    {[points |-> <<>>], [points |-> <<>>, startTime |-> 0, endTime |-> 1]}

\* A caller that has had sig processed puts a stroke without points
\* somewhere into it and has the result processed: first keeps the
\* features of the recording before.
ProcessExtended ==
    /\ features # None
    /\ ~IsRaised(features)
    /\ first = features
    /\ \E k \in 0..Len(StrokesOf(sig)), e \in EmptyStrokes :
          LET s == [strokes |-> InsertAt(StrokesOf(sig), k, e)]
              f == process_signature(signatures, s, clock)
          IN  /\ sig' = s
              /\ first' = features
              /\ features' = f
              /\ flat' = IF IsRaised(f) THEN None ELSE flatten_features(f)
    /\ UNCHANGED <<clock, signatures, report, data_dir>>
    /\ UNCHANGED serverVars

\* A caller has one of the sample signatures processed.
ProcessSample == \E s \in SampleSignatures : Process(s)

\* A caller saves one of the sample signatures.
SaveSample ==
    /\ Len(signatures) < MaxSaved
    /\ \E s \in SampleSignatures, u \in Users, t \in Types :
          save_signature(s, u, t)

\* A caller saves one more of the sample signatures to the history.
SaveHistory ==
    /\ Len(signatures) < MaxHistory
    /\ \E s \in SampleSignatures, u \in Users, t \in Types :
          save_signature(s, u, t)

\* A caller saves a genuine signature: one without strokes, or the example.
SaveProbe ==
    /\ Len(signatures) < MaxSaved
    /\ \E s \in VerifyRequests, u \in Users : save_signature(s, u, "genuine")

\* How the data directory behaves on one save.
DiskOutcomes == {"ok", "OSError"}

\* A caller saves a signature while the data directory can or cannot be
\* written.
SaveToDisk ==
    /\ Len(signatures) < MaxHistory
    /\ \E s \in VerifyRequests, u \in Users, t \in Types, disk \in DiskOutcomes :
          /\ SaveOn(s, u, t, disk)
          /\ UNCHANGED <<clock, report>>
          /\ UNCHANGED serverVars

\* A caller has one of these two signatures processed.
ProcessProbe == \E s \in VerifyRequests : Process(s)

\* report = collector.analyze_consistency(user_id)
Analyze ==
    /\ \E u \in Users :
          report' = [user_id |-> u, result |-> analyze_consistency(signatures, u)]
    /\ UNCHANGED <<sig, first, features, flat, clock, signatures, data_dir>>
    /\ UNCHANGED serverVars

\* Time passes between two calls.
Tick ==
    /\ clock < MaxClock
    /\ clock' = clock + 1
    /\ UNCHANGED <<sig, first, features, flat, signatures, report, data_dir>>
    /\ UNCHANGED serverVars

(* ---------------------------- server steps ---------------------------- *)
\* The values a stored or current metric takes in a request.
Values == {k * Scale : k \in (-1)..MaxVal}

\* A metrics dict of a request: empty, or every feature with the value v.
MetricsSet ==
    {<<>>} \cup {[k \in {FeatureNames[i] : i \in 1..Len(FeatureNames)} |-> v] :
                 v \in Values}

\* The bodies of the predict requests: both metrics dicts, or a body that
\* lacks stored_features.
PredictRequests ==
    [stored_features : MetricsSet, current_features : MetricsSet]
    \cup {[current_features |-> <<>>]}

\* The requests sent while the models directory changes: one that lacks
\* stored_features and one whose metrics differ.
ProbeRequests ==
    { [current_features |-> <<>>],
      [stored_features |-> [k \in {"stroke_count", "area"} |-> 2 * Scale],
       current_features |-> [k \in {"stroke_count", "area"} |-> Scale]] }

\* Sample class probabilities: the bounds, the tie, and the values of the
\* documented examples (0.12, 0.3, 0.7, 0.88).
ProbLevels == {0, 120, 300, 500, 700, 880, Scale}

\* What predict_proba returns: [P(forgery), P(genuine)], summing to 1.
Probabilities == {<<Scale - g, g>> : g \in ProbLevels}

\* How the pickled classifier behaves on one vector.
ForestBehaviours ==
    [raises : {"transform", "predict", "predict_proba"},
     probability : {<<Scale, 0>>}]
    \cup [raises : {"none"}, probability : Probabilities]

\* How the Keras network and its scaler behave on one vector.
NetworkBehaviours ==
    [raises : {"transform", "predict"}, prediction : {0}]
    \cup [raises : {"none"}, prediction : ProbLevels]

\* POST /api/predict with a body out of requests.
PredictOn(requests) ==
    /\ \E data \in requests, classifier \in ForestBehaviours :
          LET r == predict(data, model, scaler, feature_names, classifier)
          IN  /\ request' = data
              /\ response' = r["response"]
              /\ calls' = r["calls"]
              /\ diffs' = r["features"]
    /\ handled' = "predict"
    /\ UNCHANGED <<model, scaler, feature_names, models_dir, trainer>>
    /\ UNCHANGED threads
    /\ UNCHANGED collectorVars

Predict == PredictOn(PredictRequests)

PredictProbe == PredictOn(ProbeRequests)

\* POST /api/reload-model
ReloadModel ==
    /\ LET loaded == load_model(models_dir)
       IN  /\ model' = loaded[1]
           /\ scaler' = loaded[2]
           /\ feature_names' = loaded[3]
           /\ response' =
                [success |-> loaded[1] # None,
                 message |-> IF loaded[1] # None THEN "Model reloaded"
                             ELSE "Failed to reload model",
                 status |-> 200]
    /\ handled' = "reload-model"
    /\ request' = None
    /\ calls' = <<>>
    /\ diffs' = None
    /\ UNCHANGED <<models_dir, trainer>>
    /\ UNCHANGED threads
    /\ UNCHANGED collectorVars

\* GET /api/health
Health ==
    /\ response' =
          [status |-> "healthy",
           model_loaded |-> model # None,
           feature_count |-> IF feature_names = None THEN 0
                             ELSE Len(feature_names["names"]),
           status_code |-> 200]
    /\ handled' = "health"
    /\ request' = None
    /\ calls' = <<>>
    /\ diffs' = None
    /\ UNCHANGED <<model, scaler, feature_names, models_dir, trainer>>
    /\ UNCHANGED threads
    /\ UNCHANGED collectorVars

(* ---- predict and reload-model as the threaded server interleaves them -- *)
\* predict, lines 42-68: the body is read and the diff vector is built over
\* the global feature_names as it is when the loop starts.
PredictRead ==
    /\ threads["predict"]["pc"] \in {"idle", "done"}
    /\ \E data \in ProbeRequests, classifier \in ForestBehaviours :
          LET r == predict(data, model, scaler, feature_names, classifier)
              failed == r["features"] = None
          IN  threads' =
                [threads EXCEPT !["predict"] =
                   [IdlePredict EXCEPT
                      !["pc"] = IF failed THEN "done" ELSE "diffed",
                      !["data"] = data,
                      !["classifier"] = classifier,
                      !["read"] = IF "stored_features" \in DOMAIN data
                                     /\ "current_features" \in DOMAIN data
                                  THEN {"feature_names"} ELSE {},
                      !["names"] = feature_names,
                      !["features"] = r["features"],
                      !["response"] = IF failed THEN r["response"] ELSE None]]
    /\ UNCHANGED <<model, scaler, feature_names, models_dir, trainer,
                   handled, request, response, calls, diffs>>
    /\ UNCHANGED collectorVars

\* predict, line 72: scaler.transform on the global scaler as it is now.
PredictTransform ==
    /\ threads["predict"]["pc"] = "diffed"
    /\ LET p == threads["predict"]
           r == predict(p["data"], [pickle |-> <<"model_pkl", 0>>], scaler,
                        p["names"], p["classifier"])
           failed == scaler = None \/ p["classifier"]["raises"] = "transform"
       IN  threads' =
             [threads EXCEPT !["predict"] =
                [p EXCEPT
                   !["pc"] = IF failed THEN "done" ELSE "scaled",
                   !["read"] = @ \cup {"scaler"},
                   !["scaler"] = scaler,
                   !["response"] = IF failed THEN r["response"] ELSE None,
                   !["calls"] = IF scaler = None THEN <<>> ELSE <<"transform">>]]
    /\ UNCHANGED <<model, scaler, feature_names, models_dir, trainer,
                   handled, request, response, calls, diffs>>
    /\ UNCHANGED collectorVars

\* predict, line 75: model.predict on the global model as it is now.
PredictClassify ==
    /\ threads["predict"]["pc"] = "scaled"
    /\ LET p == threads["predict"]
           r == predict(p["data"], model, p["scaler"], p["names"],
                        p["classifier"])
           failed == model = None \/ p["classifier"]["raises"] = "predict"
       IN  threads' =
             [threads EXCEPT !["predict"] =
                [p EXCEPT
                   !["pc"] = IF failed THEN "done" ELSE "predicted",
                   !["read"] = @ \cup {"model"},
                   !["model"] = model,
                   !["response"] = IF failed THEN r["response"] ELSE None,
                   !["calls"] = IF model = None THEN @ ELSE Append(@, "predict")]]
    /\ UNCHANGED <<model, scaler, feature_names, models_dir, trainer,
                   handled, request, response, calls, diffs>>
    /\ UNCHANGED collectorVars

\* predict, lines 76-101: model.predict_proba on the global model as it is
\* now, and the response.
PredictProba ==
    /\ threads["predict"]["pc"] = "predicted"
    /\ LET p == threads["predict"]
           r == predict(p["data"], p["model"], p["scaler"], p["names"],
                        p["classifier"])
       IN  threads' =
             [threads EXCEPT !["predict"] =
                [p EXCEPT
                   !["pc"] = "done",
                   !["read"] = @ \cup {"model_proba"},
                   !["model_proba"] = model,
                   !["response"] = IF model = None
                                   THEN PredictFailure("AttributeError")
                                   ELSE r["response"],
                   !["calls"] = IF model = None THEN @
                                ELSE Append(@, "predict_proba")]]
    /\ UNCHANGED <<model, scaler, feature_names, models_dir, trainer,
                   handled, request, response, calls, diffs>>
    /\ UNCHANGED collectorVars

\* reload_model, line 124, right-hand side: load_model() returns its tuple.
ReloadLoad ==
    /\ threads["reload"]["pc"] = "idle"
    /\ threads' = [threads EXCEPT
                      !["reload"] = [pc |-> "model",
                                     loaded |-> load_model(models_dir)]]
    /\ UNCHANGED <<model, scaler, feature_names, models_dir, trainer,
                   handled, request, response, calls, diffs>>
    /\ UNCHANGED collectorVars

\* reload_model, line 124, left-hand side: the tuple is unpacked into the
\* globals model, scaler and feature_names, one store after the other.
ReloadStore ==
    /\ threads["reload"]["pc"] \in {"model", "scaler", "feature_names"}
    /\ LET r == threads["reload"]
       IN  /\ model' = IF r["pc"] = "model" THEN r["loaded"][1] ELSE model
           /\ scaler' = IF r["pc"] = "scaler" THEN r["loaded"][2] ELSE scaler
           /\ feature_names' = IF r["pc"] = "feature_names"
                               THEN r["loaded"][3] ELSE feature_names
           /\ threads' =
                 [threads EXCEPT !["reload"] =
                    IF r["pc"] = "model"
                    THEN [r EXCEPT !["pc"] = "scaler"]
                    ELSE IF r["pc"] = "scaler"
                    THEN [r EXCEPT !["pc"] = "feature_names"]
                    ELSE [pc |-> "idle"]]
    /\ UNCHANGED <<models_dir, trainer, handled, request, response, calls,
                   diffs>>
    /\ UNCHANGED collectorVars

\* POST /api/verify-ml with a signature out of requests, the network
\* behaving as one of behaviours.
VerifyOn(requests, behaviours) ==
    /\ \E s \in requests, classifier \in behaviours :
          LET r == verify_with_ml(models_dir, s, clock, classifier)
          IN  /\ request' = [signatureData |-> s]
              /\ response' = r["response"]
              /\ calls' = r["calls"]
    /\ handled' = "verify-ml"
    /\ diffs' = None
    /\ UNCHANGED <<model, scaler, feature_names, models_dir, trainer>>
    /\ UNCHANGED threads
    /\ UNCHANGED collectorVars

\* POST /api/verify-ml of api_server.py
VerifyWithMl == VerifyOn(VerifyRequests, NetworkBehaviours)

\* The network raising in the scaler, and answering 0.0 or 1.0.
ProbeBehaviours ==
    {[raises |-> "transform", prediction |-> 0],
     [raises |-> "none", prediction |-> 0],
     [raises |-> "none", prediction |-> Scale]}

\* A verification next to a collector that holds a history.
VerifyProbe == VerifyOn(VerifyRequests, ProbeBehaviours)

\* A save_model that goes on to the info record once the model is written.
AfterWriteInfoEarly(pc) == "info"

\* What save_model writes after the file pc: the scaler after the model,
\* the feature names after the scaler, the info record after those.
AfterWrite(pc) ==
    IF pc = "model" THEN "scaler"
    ELSE IF pc = "scaler" THEN "features"
    ELSE "info"

\* `if len(X) < 10`: the samples train() asks for before it fits and saves.
MinSamples == 10

\* The numbers of samples a training run finds in data/.
SampleCounts == 0..MaxSamples

\* SignatureMLModel.train of train_model_sklearn.py up to save_model's
\* timestamp: with fewer than MinSamples samples it returns at once, else
\* it fits and save_model starts.
Train ==
    /\ trainer["pc"] = "idle"
    /\ trainer["timestamp"] < MaxRuns
    /\ \E n \in SampleCounts :
          trainer' = IF n < MinSamples
                     THEN [pc |-> "idle", timestamp |-> trainer["timestamp"],
                           samples |-> n]
                     ELSE [pc |-> "model",
                           timestamp |-> trainer["timestamp"] + 1,
                           samples |-> n]
    /\ UNCHANGED <<model, scaler, feature_names, models_dir, handled,
                   request, response, calls, diffs>>
    /\ UNCHANGED threads
    /\ UNCHANGED collectorVars

\* SignatureMLModel.save_model of train_model_sklearn.py, one file at a time:
\* the timestamp is taken, then the model, the scaler, the feature names and
\* at last latest_model_info.json are written.
SaveModelBegin ==
    /\ trainer["pc"] = "idle"
    /\ trainer["timestamp"] < MaxModels
    /\ trainer' = [pc |-> "model", timestamp |-> trainer["timestamp"] + 1]
    /\ UNCHANGED <<model, scaler, feature_names, models_dir, handled,
                   request, response, calls, diffs>>
    /\ UNCHANGED threads
    /\ UNCHANGED collectorVars

SaveModelWrite ==
    /\ trainer["pc"] \in {"model", "scaler", "features"}
    /\ LET kind == IF trainer["pc"] = "model" THEN "model_pkl"
                   ELSE trainer["pc"]
       IN  models_dir' =
             [models_dir EXCEPT
                !["files"] = @ \cup {<<kind, trainer["timestamp"]>>}]
    /\ trainer' = [trainer EXCEPT !["pc"] = AfterWrite(@)]
    /\ UNCHANGED <<model, scaler, feature_names, handled, request, response,
                   calls, diffs>>
    /\ UNCHANGED threads
    /\ UNCHANGED collectorVars

SaveModelInfo ==
    /\ trainer["pc"] = "info"
    /\ models_dir' =
          [models_dir EXCEPT
             !["info"] = [model_path |-> <<"model_pkl", trainer["timestamp"]>>,
                          scaler_path |-> <<"scaler", trainer["timestamp"]>>,
                          feature_path |-> <<"features", trainer["timestamp"]>>,
                          timestamp |-> trainer["timestamp"],
                          feature_names |-> FeatureNames]]
    /\ trainer' = [trainer EXCEPT !["pc"] = "idle"]
    /\ UNCHANGED <<model, scaler, feature_names, handled, request, response,
                   calls, diffs>>
    /\ UNCHANGED threads
    /\ UNCHANGED collectorVars

\* save_model of Redundant/ml-model/train_model.py: the network as .h5, the
\* scaler and the feature names, and no info record.
SaveModelKeras ==
    /\ trainer["pc"] = "idle"
    /\ trainer["timestamp"] < MaxModels
    /\ LET timestamp == trainer["timestamp"] + 1
       IN  /\ trainer' = [trainer EXCEPT !["timestamp"] = timestamp]
           /\ models_dir' =
                [models_dir EXCEPT
                   !["files"] = @ \cup {<<"model_h5", timestamp>>,
                                        <<"scaler", timestamp>>,
                                        <<"features", timestamp>>}]
    /\ UNCHANGED <<model, scaler, feature_names, handled, request, response,
                   calls, diffs>>
    /\ UNCHANGED threads
    /\ UNCHANGED collectorVars

\* A file of the models directory is removed from outside.
RemoveArtifact ==
    /\ \E f \in models_dir["files"] :
          models_dir' = [models_dir EXCEPT !["files"] = @ \ {f}]
    /\ UNCHANGED <<model, scaler, feature_names, trainer, handled, request,
                   response, calls, diffs>>
    /\ UNCHANGED threads
    /\ UNCHANGED collectorVars

\* A fresh collector, an empty models directory, and the server's
\* `model, scaler, feature_names = load_model()` on startup.
Init ==
    /\ sig = <<>>
    /\ first = None
    /\ features = None
    /\ flat = None
    /\ clock = 0
    /\ signatures = <<>>
    /\ report = None
    /\ data_dir = <<>>
    /\ models_dir = [files |-> {}, info |-> None]
    /\ trainer = [pc |-> "idle", timestamp |-> 0]
    /\ model = load_model(models_dir)[1]
    /\ scaler = load_model(models_dir)[2]
    /\ feature_names = load_model(models_dir)[3]
    /\ handled = "none"
    /\ request = None
    /\ response = None
    /\ calls = <<>>
    /\ diffs = None
    /\ threads = IdleThreads

NextExtract ==
    \/ StartCapture
    \/ BeginStroke
    \/ AddPoint
    \/ Extract

\* Capture and extraction of every signature within the bounds.
SpecExtract == Init /\ [][NextExtract]_vars

\* A fresh collector that is handed one of the recordings of FeatureInputs.
InitFeatures ==
    /\ sig \in FeatureInputs
    /\ first = None
    /\ features = None
    /\ flat = None
    /\ clock = 0
    /\ signatures = <<>>
    /\ report = None
    /\ data_dir = <<>>
    /\ models_dir = [files |-> {}, info |-> None]
    /\ trainer = [pc |-> "idle", timestamp |-> 0]
    /\ model = load_model(models_dir)[1]
    /\ scaler = load_model(models_dir)[2]
    /\ feature_names = load_model(models_dir)[3]
    /\ handled = "none"
    /\ request = None
    /\ response = None
    /\ calls = <<>>
    /\ diffs = None
    /\ threads = IdleThreads

NextFeatures == Extract

\* Extraction of each of the recordings of FeatureInputs.
SpecFeatures == InitFeatures /\ [][NextFeatures]_vars

NextExtended ==
    \/ Extract
    \/ ProcessExtended

\* Extraction of each of the recordings of FeatureInputs, and of the
\* recording with one more stroke that has no points.
SpecExtended == InitFeatures /\ [][NextExtended]_vars

NextCollector ==
    \/ ProcessSample
    \/ SaveSample
    \/ Tick

\* A collector that processes and saves the sample signatures.
SpecCollector == Init /\ [][NextCollector]_vars

NextServer ==
    \/ PredictProbe
    \/ ReloadModel
    \/ Health
    \/ VerifyWithMl
    \/ SaveModelBegin
    \/ SaveModelWrite
    \/ SaveModelInfo
    \/ SaveModelKeras
    \/ RemoveArtifact

\* The ML API server, the verify endpoint, and the trainers that fill the
\* models directory.
SpecServer == Init /\ [][NextServer]_vars

NextTrainer ==
    \/ Train
    \/ SaveModelWrite
    \/ SaveModelInfo
    \/ ReloadModel
    \/ Health
    \/ PredictProbe

\* Training runs that fill the models directory next to a server that
\* reloads and predicts.
SpecTrainer == Init /\ [][NextTrainer]_vars

\* The models directory after one training run of train_model_sklearn.py.
TrainedDir ==
    [files |-> {<<"model_pkl", 1>>, <<"scaler", 1>>, <<"features", 1>>},
     info |-> [model_path |-> <<"model_pkl", 1>>,
               scaler_path |-> <<"scaler", 1>>,
               feature_path |-> <<"features", 1>>,
               timestamp |-> 1,
               feature_names |-> FeatureNames]]

\* The models directory after a second training run.
RetrainedDir ==
    [files |-> TrainedDir["files"]
                 \cup {<<"model_pkl", 2>>, <<"scaler", 2>>, <<"features", 2>>},
     info |-> [model_path |-> <<"model_pkl", 2>>,
               scaler_path |-> <<"scaler", 2>>,
               feature_path |-> <<"features", 2>>,
               timestamp |-> 2,
               feature_names |-> FeatureNames]]

\* The models directory after the first run's scaler file was removed.
BrokenDir ==
    [files |-> TrainedDir["files"] \ {<<"scaler", 1>>},
     info |-> TrainedDir["info"]]

\* A server that loaded the classifier of the first training run on
\* startup; since then the models directory was left alone, retrained or
\* broken.
InitOverlap ==
    /\ sig = <<>>
    /\ first = None
    /\ features = None
    /\ flat = None
    /\ clock = 0
    /\ signatures = <<>>
    /\ report = None
    /\ data_dir = <<>>
    /\ models_dir \in {TrainedDir, RetrainedDir, BrokenDir}
    /\ trainer = [pc |-> "idle", timestamp |-> 2]
    /\ model = load_model(TrainedDir)[1]
    /\ scaler = load_model(TrainedDir)[2]
    /\ feature_names = load_model(TrainedDir)[3]
    /\ handled = "none"
    /\ request = None
    /\ response = None
    /\ calls = <<>>
    /\ diffs = None
    /\ threads = IdleThreads

NextOverlap ==
    \/ PredictRead
    \/ PredictTransform
    \/ PredictClassify
    \/ PredictProba
    \/ ReloadLoad
    \/ ReloadStore

\* One predict and one reload-model request at a time, their steps
\* interleaved as the threaded server runs them.
SpecOverlap == InitOverlap /\ [][NextOverlap]_vars

\* A models directory after one run of the network trainer's save_model.
NetworkDir ==
    [files |-> {<<"model_h5", 1>>, <<"scaler", 1>>, <<"features", 1>>},
     info |-> None]

\* A fresh collector next to a verifier whose network has been trained.
InitHistory ==
    /\ sig = <<>>
    /\ first = None
    /\ features = None
    /\ flat = None
    /\ clock = 0
    /\ signatures = <<>>
    /\ report = None
    /\ data_dir = <<>>
    /\ models_dir = NetworkDir
    /\ trainer = [pc |-> "idle", timestamp |-> 1]
    /\ model = load_model(models_dir)[1]
    /\ scaler = load_model(models_dir)[2]
    /\ feature_names = load_model(models_dir)[3]
    /\ handled = "none"
    /\ request = None
    /\ response = None
    /\ calls = <<>>
    /\ diffs = None
    /\ threads = IdleThreads

NextHistory ==
    \/ SaveHistory
    \/ Analyze

SpecHistory == InitHistory /\ [][NextHistory]_vars

NextStateless ==
    \/ SaveProbe
    \/ ProcessProbe
    \/ Analyze
    \/ VerifyProbe

\* Saving, processing, analysing and verifying in any order.
SpecStateless == InitHistory /\ [][NextStateless]_vars

\* GET /api/user-metrics/<user_id>
UserMetrics ==
    /\ \E u \in Users :
          /\ request' = [user_id |-> u]
          /\ response' = get_user_metrics(signatures, u, clock)
    /\ handled' = "user-metrics"
    /\ calls' = <<>>
    /\ diffs' = None
    /\ UNCHANGED <<model, scaler, feature_names, models_dir, trainer>>
    /\ UNCHANGED threads
    /\ UNCHANGED collectorVars

NextMetrics ==
    \/ SaveHistory
    \/ UserMetrics

\* Saving signatures and asking for the metrics of a user.
SpecMetrics == InitHistory /\ [][NextMetrics]_vars

NextDisk ==
    \/ SaveToDisk
    \/ Analyze

\* Saving to a data directory that may fail, and analysing.
SpecDisk == InitHistory /\ [][NextDisk]_vars

\* Names a later trainer could add after the 19 of the collector.
ExtraNames == <<"pressure_mean", "pressure_std">>

\* The feature-name lists a features file may hold: the first k of the 19
\* names and the extras, for k around 19.
NameLists ==
    {SubSeq(FeatureNames \o ExtraNames, 1, k) :
        k \in (Len(FeatureNames) - MaxNameSkew)..(Len(FeatureNames) + MaxNameSkew)}

\* verify_from_file / test_all_signatures: a SignatureVerifier on models/
\* verifies one recording.
VerifySignature ==
    /\ \E s \in SampleSignatures, classifier \in NetworkBehaviours :
          LET verifier == load_latest_model(models_dir)
              r == verify_signature(verifier, s, clock, classifier)
          IN  /\ ~IsRaised(verifier)
              /\ request' = [signatureData |-> s]
              /\ response' = r["result"]
              /\ calls' = r["calls"]
              /\ diffs' = r["vector"]
    /\ handled' = "verify_signature"
    /\ UNCHANGED <<model, scaler, feature_names, models_dir, trainer>>
    /\ UNCHANGED threads
    /\ UNCHANGED collectorVars

\* A models/ directory whose features file holds any of the name lists.
InitVerify ==
    /\ sig = <<>>
    /\ first = None
    /\ features = None
    /\ flat = None
    /\ clock = 0
    /\ signatures = <<>>
    /\ report = None
    /\ data_dir = <<>>
    /\ \E names \in NameLists :
          models_dir = [files |-> NetworkDir["files"],
                        info |-> NetworkDir["info"],
                        names |-> names]
    /\ trainer = [pc |-> "idle", timestamp |-> 1]
    /\ model = load_model(models_dir)[1]
    /\ scaler = load_model(models_dir)[2]
    /\ feature_names = load_model(models_dir)[3]
    /\ handled = "none"
    /\ request = None
    /\ response = None
    /\ calls = <<>>
    /\ diffs = None
    /\ threads = IdleThreads

NextVerify == VerifySignature

SpecVerify == InitVerify /\ [][NextVerify]_vars

\* The server starts on an empty or on a trained models directory.
InitPredict ==
    /\ sig = <<>>
    /\ first = None
    /\ features = None
    /\ flat = None
    /\ clock = 0
    /\ signatures = <<>>
    /\ report = None
    /\ data_dir = <<>>
    /\ models_dir \in {[files |-> {}, info |-> None], TrainedDir}
    /\ trainer = [pc |-> "idle", timestamp |-> Cardinality(models_dir["files"]) \div 3]
    /\ model = load_model(models_dir)[1]
    /\ scaler = load_model(models_dir)[2]
    /\ feature_names = load_model(models_dir)[3]
    /\ handled = "none"
    /\ request = None
    /\ response = None
    /\ calls = <<>>
    /\ diffs = None
    /\ threads = IdleThreads

NextPredict ==
    \/ Predict

\* The predict endpoint on every request within the bounds.
SpecPredict == InitPredict /\ [][NextPredict]_vars


(* ============================== claims ================================ *)
AllCalls == <<"transform", "predict", "predict_proba">>

IsPrefix(a, b) == Len(a) <= Len(b) /\ a = SubSeq(b, 1, Len(a))

Succeeded == "success" \in DOMAIN response /\ response["success"] = TRUE

Failed == "success" \in DOMAIN response /\ response["success"] = FALSE

ClassifierLoaded == model # None /\ scaler # None /\ feature_names # None

\* What C1 says of the state a request leaves behind.
C1_Answered ==
    /\ handled = "predict" =>
          /\ IsPrefix(calls, AllCalls)
          /\ ~ClassifierLoaded => Failed
          /\ calls # AllCalls => Failed
          /\ Failed => /\ "is_genuine" \notin DOMAIN response
                       /\ "prediction" \notin DOMAIN response
                       /\ response["confidence_score"] = 0
                       /\ response["status"] = 500
          /\ Succeeded => ClassifierLoaded /\ calls = AllCalls
    /\ handled = "verify-ml" =>
          /\ IsPrefix(calls, <<"transform", "predict">>)
          /\ calls # <<"transform", "predict">> => Failed
          /\ Failed => "is_genuine" \notin DOMAIN response
    /\ ("is_genuine" \in DOMAIN response /\ response["is_genuine"]) =>
          /\ handled \in {"predict", "verify-ml"}
          /\ Succeeded
          /\ Len(calls) >= 2

\* C1: a predict (or verify-ml) request answered while the classifier is
\* unavailable, or for which a classifier call raised, ends in a failure
\* response without is_genuine and without prediction; the classifier calls
\* are made at most once each, in order, and none after the one that raised;
\* a genuine verdict is only ever answered after all classifier calls of
\* the request were made on a loaded classifier.  A verify-ml request made
\* while the latest model cannot be loaded fails before any classifier call.
C1_NoVerdictWithoutClassifier ==
    [][/\ C1_Answered'
       /\ (VerifyWithMl /\ IsRaised(load_latest_model(models_dir))) =>
             (Failed' /\ calls' = <<>>)
       /\ (PredictProbe /\ ~ClassifierLoaded) =>
             (Failed' /\ calls' = <<>>)]_vars

\* C1 witness: a model was trained and its info record written, the reload
\* failed, and a well-formed predict request got the failure response.
C1_Witness ==
    /\ handled = "predict"
    /\ models_dir["info"] # None
    /\ model = None
    /\ "stored_features" \in DOMAIN request
    /\ Failed

\* C2: the confidence of a successful predict response is probabilities[1]
\* x 100 when the label is 1 and (1 - probabilities[0]) x 100 when it is 0;
\* label 1 with [0.12, 0.88] gives 88.0, label 0 with [0.7, 0.3] gives 30.0.
C2_ConfidenceFormula ==
    /\ (handled = "predict" /\ Succeeded) =>
          /\ response["prediction"] = 1 =>
                response["confidence_score"]
                   = response["probabilities"]["genuine"] * 100
          /\ response["prediction"] = 0 =>
                response["confidence_score"]
                   = (Scale - response["probabilities"]["forgery"]) * 100
          /\ response["prediction"] \in {0, 1}
    /\ ConfidenceScore(1, <<120, 880>>) = 88 * Scale
    /\ ConfidenceScore(0, <<700, 300>>) = 30 * Scale

\* C2 witness: the classifier answered label 0 with [0.7, 0.3] and the
\* response reports confidence 30.0.
C2_Witness ==
    /\ handled = "predict"
    /\ Succeeded
    /\ response["prediction"] = 0
    /\ response["probabilities"] = [forgery |-> 700, genuine |-> 300]
    /\ response["confidence_score"] = 30 * Scale

\* C3: in every successful verification the verdict is genuine exactly when
\* the reported confidence is above 50.0; for predict that is exactly when
\* the classifier's label is 1, and verify_signature reports the threshold
\* 50.0 with a verdict that agrees with is_genuine.
C3_FixedThreshold ==
    /\ (handled = "predict" /\ Succeeded) =>
          /\ response["is_genuine"]
                <=> (response["confidence_score"] > Threshold * Scale)
          /\ response["is_genuine"] <=> (response["prediction"] = 1)
    /\ (handled = "verify-ml" /\ Succeeded) =>
          /\ response["is_genuine"]
                <=> (response["confidence"] > Threshold * Scale)
          /\ response["analysis"]["threshold"] = 50 * Scale
          /\ response["analysis"]["is_genuine"] = response["is_genuine"]
          /\ response["analysis"]["confidence"] = response["confidence"]
          /\ (response["analysis"]["verdict"] = "GENUINE")
                <=> response["is_genuine"]

\* C3 witness: the network's output is exactly 0.5, the confidence exactly
\* 50.0, and the verdict is not genuine.
C3_Witness ==
    /\ handled = "verify-ml"
    /\ Succeeded
    /\ response["confidence"] = 50 * Scale
    /\ ~response["is_genuine"]

\* C4: the confidence of every successful verification lies in [0, 100],
\* and so does the confidence computed for either label from any two
\* probabilities in [0, 1].
C4_ConfidenceRange ==
    /\ (handled = "predict" /\ Succeeded) =>
          /\ response["confidence_score"] >= 0
          /\ response["confidence_score"] <= 100 * Scale
    /\ (handled = "verify-ml" /\ Succeeded) =>
          /\ response["confidence"] >= 0
          /\ response["confidence"] <= 100 * Scale
    /\ \A label \in {0, 1}, p0 \in ProbLevels, p1 \in ProbLevels :
          /\ ConfidenceScore(label, <<p0, p1>>) >= 0
          /\ ConfidenceScore(label, <<p0, p1>>) <= 100 * Scale

\* C4 witness: a forgery verdict whose class probability is 1.0, reported
\* with confidence 0.
C4_Witness ==
    /\ handled = "predict"
    /\ Succeeded
    /\ response["prediction"] = 0
    /\ response["probabilities"]["forgery"] = Scale
    /\ response["confidence_score"] = 0

\* The metric values a predict request carries for the i-th feature.
StoredVal(i) == Get(request["stored_features"], FeatureNames[i], 0)

CurrentVal(i) == Get(request["current_features"], FeatureNames[i], 0)

DiffsBuilt == handled = "predict" /\ diffs # None

\* |attempt - reference| / reference, as the claim words it.
RelativeAsClaimed(reference, attempt) ==
    IF reference # 0 THEN Quot(Abs(attempt - reference) * Scale, reference)
    ELSE IF attempt # 0 THEN Scale ELSE 0

\* |attempt - reference| / |reference|
RelativeToMagnitude(reference, attempt) ==
    IF reference # 0 THEN (Abs(attempt - reference) * Scale) \div Abs(reference)
    ELSE IF attempt # 0 THEN Scale ELSE 0

\* C5 as claimed: the diff of every feature that is not a count is
\* |attempt - reference| / reference when reference is not 0, 1.0 when only
\* reference is 0, and 0.0 when both are 0.
C5_AsClaimed ==
    DiffsBuilt =>
       \A i \in 1..Len(diffs) :
          FeatureNames[i] \notin {"stroke_count", "total_points"} =>
             diffs[i] = RelativeAsClaimed(StoredVal(i), CurrentVal(i))

\* C5 amended: the diff of every feature that is not a count is
\* |attempt - reference| / |reference| when reference is not 0, 1.0 when
\* only reference is 0, and 0.0 when both are 0; it is not symmetric:
\* reference 100 with attempt 150 gives 0.5, reference 150 with attempt 100
\* gives 0.333.
C5_RelativeDiff ==
    /\ DiffsBuilt =>
          /\ Len(diffs) = Len(FeatureNames)
          /\ \A i \in 1..Len(diffs) :
                FeatureNames[i] \notin {"stroke_count", "total_points"} =>
                   diffs[i] = RelativeToMagnitude(StoredVal(i), CurrentVal(i))
    /\ DiffFeature("area", [area |-> 100 * Scale], [area |-> 150 * Scale]) = 500
    /\ DiffFeature("area", [area |-> 150 * Scale], [area |-> 100 * Scale]) = 333

\* C5 witness: a request with a negative reference: stored -1, current 2,
\* relative diff 3.0.
C5_Witness ==
    /\ DiffsBuilt
    /\ StoredVal(11) = -Scale
    /\ CurrentVal(11) = 2 * Scale
    /\ diffs[11] = 3 * Scale

\* C6: the diff of stroke_count and of total_points is |attempt - reference|
\* and the same with reference and attempt swapped; the diff of every other
\* feature is the relative one.
C6_CountDiff ==
    DiffsBuilt =>
       \A i \in 1..Len(diffs) :
          IF FeatureNames[i] \in {"stroke_count", "total_points"}
          THEN /\ diffs[i] = Abs(CurrentVal(i) - StoredVal(i))
               /\ diffs[i] = DiffFeature(FeatureNames[i],
                                         request["current_features"],
                                         request["stored_features"])
          ELSE diffs[i] = RelativeToMagnitude(StoredVal(i), CurrentVal(i))

\* C6 witness: stored 2 and current 1 for every feature: the two counts
\* differ by 1, every other feature by 0.5.
C6_Witness ==
    /\ DiffsBuilt
    /\ StoredVal(1) = 2 * Scale
    /\ CurrentVal(1) = Scale
    /\ diffs[1] = Scale
    /\ diffs[2] = Scale
    /\ \A i \in 3..Len(diffs) : diffs[i] = 500

Zeros19 == [i \in 1..19 |-> 0]

\* C7: for a signature with zero strokes, extraction followed by flattening
\* gives 19 entries that are all 0.
C7_ZeroStrokes ==
    (features # None /\ Len(StrokesOf(sig)) = 0) =>
       /\ ~IsRaised(features)
       /\ flat = Zeros19

\* C7 witness: a signature with an explicit empty list of strokes was
\* extracted and flattened.
C7_Witness ==
    /\ sig = [strokes |-> <<>>]
    /\ features # None
    /\ flat # None

\* The signature is one stroke with exactly one point.
OneDot ==
    /\ Len(StrokesOf(sig)) = 1
    /\ "points" \in DOMAIN sig["strokes"][1]
    /\ Len(sig["strokes"][1]["points"]) = 1

\* C8: for one stroke with exactly one point the four velocity features,
\* the three stroke-length features and width, height, area and
\* aspect_ratio are all 0.
C8_OneDot ==
    (features # None /\ OneDot) =>
       /\ ~IsRaised(features)
       /\ features["velocity_features"] =
             [average_velocity |-> 0, max_velocity |-> 0,
              min_velocity |-> 0, velocity_std |-> 0]
       /\ features["stroke_features"]["average_stroke_length"] = 0
       /\ features["stroke_features"]["total_length"] = 0
       /\ features["stroke_features"]["length_variation"] = 0
       /\ features["shape_features"]["width"] = 0
       /\ features["shape_features"]["height"] = 0
       /\ features["shape_features"]["area"] = 0
       /\ features["shape_features"]["aspect_ratio"] = 0

\* C8 witness: a dot away from the origin, with a time and stroke
\* timestamps, was extracted.
C8_Witness ==
    /\ features # None
    /\ OneDot
    /\ sig["strokes"][1]["points"][1] = [x |-> 1, y |-> 1, time |-> 1]
    /\ "startTime" \in DOMAIN sig["strokes"][1]
    /\ features["shape_features"]["center_x"] = Scale

\* Every stroke of the signature is a Stroke of the data model: it carries
\* a sequence of points, possibly empty.
StrokesCarryPoints ==
    \A i \in 1..Len(StrokesOf(sig)) : "points" \in DOMAIN sig["strokes"][i]

\* C9: extraction of every signature (any number of strokes, strokes with
\* any number of points including none, with or without stroke timestamps,
\* equal or decreasing point times, all points on one horizontal line)
\* returns a feature record with its four groups, raises nothing and
\* divides by zero nowhere.
C9_ExtractTotal ==
    (features # None /\ StrokesCarryPoints) =>
       /\ ~IsRaised(features)
       /\ DivisionsByZero(StrokesOf(sig)) = {}
       /\ DOMAIN features = {"timestamp", "basic_stats", "velocity_features",
                             "shape_features", "stroke_features"}
       /\ flat # None
       /\ Len(flat) = 19
       /\ \A i \in 1..Len(flat) : flat[i] \in Int

\* C9 witness: a stroke without timestamps whose two points lie on one
\* horizontal line with decreasing times, next to a stroke with no point,
\* was extracted.
C9_Witness ==
    /\ features # None
    /\ StrokesCarryPoints
    /\ \E i \in 1..Len(StrokesOf(sig)) :
          LET stroke == sig["strokes"][i]
          IN  /\ "startTime" \notin DOMAIN stroke
              /\ Len(stroke["points"]) = 2
              /\ "time" \in DOMAIN stroke["points"][1]
              /\ "time" \in DOMAIN stroke["points"][2]
              /\ stroke["points"][1]["time"] > stroke["points"][2]["time"]
              /\ stroke["points"][1]["y"] = stroke["points"][2]["y"]
              /\ stroke["points"][1]["x"] # stroke["points"][2]["x"]
    /\ \E i \in 1..Len(StrokesOf(sig)) : Len(sig["strokes"][i]["points"]) = 0
    /\ features["velocity_features"]["max_velocity"] = Scale
    /\ features["shape_features"]["aspect_ratio"] = 0

\* The feature values of an extraction result: all but its timestamp.
FeatureValues(f) ==
    IF IsRaised(f) THEN f ELSE [k \in DOMAIN f \ {"timestamp"} |-> f[k]]

\* C10: two extractions of the same signature give equal feature values,
\* whatever the clock showed and whatever the collector held at each.
C10_Deterministic ==
    (first # None /\ features # None) =>
       FeatureValues(first) = FeatureValues(features)

\* C10 witness: the example signature was extracted at two different clock
\* values, and saved in between.
C10_Witness ==
    /\ sig = ExampleSignature
    /\ first # None
    /\ features # None
    /\ first["timestamp"] # features["timestamp"]
    /\ Len(signatures) > 0

\* Where each of the 19 entries of a flat vector comes from: the group of
\* the feature record and the key within the group.
FlatFields ==
    << <<"basic_stats", "stroke_count">>,
       <<"basic_stats", "total_points">>,
       <<"basic_stats", "total_duration_ms">>,
       <<"basic_stats", "average_points_per_stroke">>,
       <<"velocity_features", "average_velocity">>,
       <<"velocity_features", "max_velocity">>,
       <<"velocity_features", "min_velocity">>,
       <<"velocity_features", "velocity_std">>,
       <<"shape_features", "width">>,
       <<"shape_features", "height">>,
       <<"shape_features", "area">>,
       <<"shape_features", "aspect_ratio">>,
       <<"shape_features", "center_x">>,
       <<"shape_features", "center_y">>,
       <<"stroke_features", "average_stroke_length">>,
       <<"stroke_features", "total_length">>,
       <<"stroke_features", "length_variation">>,
       <<"stroke_features", "average_stroke_duration">>,
       <<"stroke_features", "duration_variation">> >>

\* The field of a feature record, 0 when the group or the key is missing.
FieldOrZero(f, field) ==
    IF field[1] \in DOMAIN f /\ field[2] \in DOMAIN f[field[1]]
    THEN f[field[1]][field[2]]
    ELSE 0

\* C11: flattening an extracted feature record gives exactly 19 numbers,
\* the i-th being the field the i-th feature name stands for, and 0 where
\* the record has no such field; a null field and a missing group give 0
\* as well, so the length is 19 for every record.
C11_FlattenOrder ==
    /\ (features # None /\ ~IsRaised(features)) =>
          /\ Len(flat) = 19
          /\ \A i \in 1..19 :
                /\ flat[i] \in Int
                /\ flat[i] = FieldOrZero(features, FlatFields[i])
    /\ FeatureNames =
          << "stroke_count", "total_points", "total_duration_ms",
             "avg_points_per_stroke", "avg_velocity", "max_velocity",
             "min_velocity", "velocity_std", "width", "height", "area",
             "aspect_ratio", "center_x", "center_y", "avg_stroke_length",
             "total_length", "length_variation", "avg_stroke_duration",
             "duration_variation" >>
    /\ flatten_features(<<>>) = Zeros19
    /\ flatten_features([shape_features |-> [width |-> None, area |-> 7],
                         stroke_features |-> <<>>])
          = [Zeros19 EXCEPT ![11] = 7]

\* C11 witness: a record with a bounding-box centre and a stroke length but
\* without the two duration fields was flattened.
C11_Witness ==
    /\ features # None
    /\ ~IsRaised(features)
    /\ "average_stroke_duration" \notin DOMAIN features["stroke_features"]
    /\ "center_x" \in DOMAIN features["shape_features"]
    /\ features["shape_features"]["center_x"] = Scale \div 2
    /\ flat[13] = Scale \div 2
    /\ flat[16] = Scale
    /\ flat[18] = 0

\* The number of records saved for user u with type 'genuine'.
GenuineCount(u) ==
    Cardinality({i \in 1..Len(signatures) :
                    /\ signatures[i]["user_id"] = u
                    /\ signatures[i]["type"] = "genuine"})

ReportKeys ==
    {"velocity_consistency", "stroke_count_consistency", "area_consistency",
     "sample_count"}

\* C12: whatever was saved before, analyze_consistency for an identity
\* with fewer than 2 genuine records returns the need-more-data signal, and
\* with 2 or more it returns a report of three consistency scores and the
\* sample count.
C12_NeedMoreData ==
    [][Analyze =>
         LET u == report'["user_id"]
             result == report'["result"]
         IN  /\ GenuineCount(u) < 2 => result = NeedMoreData
             /\ GenuineCount(u) >= 2 =>
                   /\ DOMAIN result = ReportKeys
                   /\ result["velocity_consistency"] \in Int
                   /\ result["stroke_count_consistency"] \in Int
                   /\ result["area_consistency"] \in Int
                   /\ result["sample_count"] = GenuineCount(u)]_vars

\* C12 witness: an identity with exactly 2 genuine records, of different
\* signatures, has its report.
C12_Witness ==
    /\ report # None
    /\ GenuineCount(report["user_id"]) = 2
    /\ report["result"] = analyze_consistency(signatures, report["user_id"])
    /\ DOMAIN report["result"] = ReportKeys
    /\ report["result"]["sample_count"] = 2
    /\ report["result"]["area_consistency"] < Scale

\* The genuine records of user u all hold the same feature values.
IdenticalHistory(u) ==
    LET user_signatures == UserSignatures(signatures, u)
    IN  \A i \in 1..Len(user_signatures) :
           user_signatures[i]["features"] = user_signatures[1]["features"]

\* C13: for a history of two or more identical feature vectors the three
\* consistency scores are all exactly 1, also when the metrics are all 0.
C13_IdenticalHistory ==
    [][Analyze =>
         LET u == report'["user_id"]
             result == report'["result"]
         IN  (GenuineCount(u) >= 2 /\ IdenticalHistory(u)) =>
                /\ result["velocity_consistency"] = Scale
                /\ result["stroke_count_consistency"] = Scale
                /\ result["area_consistency"] = Scale]_vars

\* C13 witness: three records of the signature without strokes, all metrics
\* 0, were analysed.
C13_Witness ==
    /\ report # None
    /\ Len(signatures) = 3
    /\ \A i \in 1..3 :
          /\ signatures[i]["user_id"] = report["user_id"]
          /\ signatures[i]["type"] = "genuine"
          /\ signatures[i]["raw_data"] = [strokes |-> <<>>]
    /\ DOMAIN report["result"] = ReportKeys
    /\ report["result"]["sample_count"] = 3
    /\ report["result"]["velocity_consistency"] = Scale

\* The history with only the genuine records of user u.
OnlyGenuineOf(u) ==
    SelectSeq(signatures,
              LAMBDA s : s["user_id"] = u /\ s["type"] = "genuine")

\* C14: the report for identity u is computed from the records saved with
\* user_id u and type 'genuine' only: it is the report of the history with
\* every other record removed, its sample_count is the number of such
\* records, and saving a forgery or a signature of another user leaves the
\* report for u as it was.
C14_OwnGenuineOnly ==
    [][/\ Analyze =>
             LET u == report'["user_id"]
                 result == report'["result"]
             IN  /\ result = analyze_consistency(OnlyGenuineOf(u), u)
                 /\ GenuineCount(u) >= 2 =>
                       result["sample_count"] = GenuineCount(u)
       /\ \A u \in Users :
             (/\ Len(signatures') = Len(signatures) + 1
              /\ LET r == signatures'[Len(signatures')]
                 IN  r["user_id"] # u \/ r["type"] # "genuine") =>
                analyze_consistency(signatures', u)
                   = analyze_consistency(signatures, u)]_vars

\* C14 witness: two genuine records of an identity, then a forgery of the
\* same identity and the report of the identity with sample count 2.
C14_Witness ==
    /\ report # None
    /\ Len(signatures) = 3
    /\ \A i \in 1..2 :
          /\ signatures[i]["user_id"] = report["user_id"]
          /\ signatures[i]["type"] = "genuine"
    /\ signatures[3]["user_id"] = report["user_id"]
    /\ signatures[3]["type"] = "forgery"
    /\ signatures[3]["raw_data"] = ExampleSignature
    /\ signatures[1]["raw_data"] # ExampleSignature
    /\ DOMAIN report["result"] = ReportKeys
    /\ report["result"]["sample_count"] = 2

\* The reports of all identities.
Reports(history) == [u \in Users |-> analyze_consistency(history, u)]

\* C15: process_signature, analyze_consistency and verification leave the
\* stored history as it was, and with it every identity's report; the
\* history only ever grows by the one record of a save_signature; an
\* analysis repeated on the same history gives the same report.
C15_Stateless ==
    [][/\ (ProcessProbe \/ Analyze \/ VerifyProbe) =>
             /\ signatures' = signatures
             /\ Reports(signatures') = Reports(signatures)
       /\ signatures' # signatures =>
             /\ SaveProbe
             /\ Len(signatures') = Len(signatures) + 1
             /\ SubSeq(signatures', 1, Len(signatures)) = signatures
       /\ Analyze =>
             report'["result"]
                = analyze_consistency(signatures', report'["user_id"])
       /\ (/\ Analyze
           /\ report # None
           /\ report'["user_id"] = report["user_id"]
           /\ report["result"]
                 = analyze_consistency(signatures, report["user_id"])) =>
             report' = report]_vars

\* C15 witness: an identity with two genuine records of the signature
\* without strokes and its report; the example signature was processed and
\* was verified as genuine, and is in no history.
C15_Witness ==
    /\ Len(signatures) = 2
    /\ \A i \in 1..2 : signatures[i]["raw_data"] = [strokes |-> <<>>]
    /\ report # None
    /\ DOMAIN report["result"] = ReportKeys
    /\ report["result"]["sample_count"] = 2
    /\ sig = ExampleSignature
    /\ features # None
    /\ handled = "verify-ml"
    /\ request = [signatureData |-> ExampleSignature]
    /\ Succeeded
    /\ response["is_genuine"]

\* The mapping from each feature name to its diff, as pairs in the order
\* of the names.
NamedDiffs ==
    [i \in 1..Len(diffs) |-> <<FeatureNames[i], diffs[i]>>]

OwnFlat == flatten_features(process_signature(<<>>, request["signatureData"], 0))

\* C17: whenever verify_signature has run on a loaded verifier, the scaler
\* was reached, and the vector handed to it has exactly as many entries as
\* the verifier's feature_names: the recording's own flattened values in
\* their order, cut after the last name when there are fewer names than
\* values, and followed by zeros when there are more.
C17_VectorLength ==
    handled = "verify_signature" =>
        LET names == FeaturesFile(models_dir)
        IN  /\ calls # <<>>
            /\ Head(calls) = "transform"
            /\ Len(diffs) = Len(names)
            /\ \A i \in 1..Len(names) :
                  diffs[i] = IF i <= Len(OwnFlat) THEN OwnFlat[i] ELSE 0

\* A verifier with 17 names has verified the example signature, whose 18th
\* flattened value is not zero, and the verification succeeded.
C17_Witness ==
    /\ handled = "verify_signature"
    /\ Len(FeaturesFile(models_dir)) = Len(FeatureNames) - MaxNameSkew
    /\ request["signatureData"] = ExampleSignature
    /\ OwnFlat[18] # 0
    /\ ~IsRaised(response)

(* ------------------------------- C18 ---------------------------------- *)
\* C18: the basic stats of every extracted signature: stroke_count is the
\* number of strokes, total_points the sum of the point counts of all
\* strokes, average_points_per_stroke their quotient and 0 with no strokes,
\* total_duration_ms the last stroke's endTime minus the first stroke's
\* startTime and 0 with no strokes, whatever the strokes in between hold.
C18_BasicStats ==
    (features # None /\ StrokesCarryPoints) =>
       /\ ~IsRaised(features)
       /\ LET strokes == StrokesOf(sig)
              n == Len(strokes)
              basic == features["basic_stats"]
          IN  /\ basic["stroke_count"] = n * Scale
              /\ basic["total_points"] = TotalPoints(strokes) * Scale
              /\ basic["average_points_per_stroke"] =
                    IF n = 0 THEN 0 ELSE TrueDiv(TotalPoints(strokes), n)
              /\ n = 0 => basic["total_duration_ms"] = 0
              /\ (/\ n > 0
                  /\ "startTime" \in DOMAIN strokes[1]
                  /\ "endTime" \in DOMAIN strokes[n]) =>
                    basic["total_duration_ms"] =
                       (strokes[n]["endTime"] - strokes[1]["startTime"]) * Scale

\* C18 witness: three strokes were extracted; the last ends after the first
\* starts, and the stroke in between carries a point and an endTime that is
\* not the last stroke's.
C18_Witness ==
    /\ features # None
    /\ Len(StrokesOf(sig)) = 3
    /\ StrokesCarryPoints
    /\ "startTime" \in DOMAIN sig["strokes"][1]
    /\ "endTime" \in DOMAIN sig["strokes"][2]
    /\ "endTime" \in DOMAIN sig["strokes"][3]
    /\ sig["strokes"][1]["startTime"] = 0
    /\ sig["strokes"][2]["endTime"] = 0
    /\ sig["strokes"][3]["endTime"] = 1
    /\ Len(sig["strokes"][2]["points"]) = 1
    /\ features["basic_stats"]["total_duration_ms"] = Scale

(* ------------------------------- C19 ---------------------------------- *)
\* Every point of the signature carries a time.
PointsCarryTimes ==
    \A i \in 1..Len(StrokesOf(sig)) :
       \A j \in 1..Len(PointsOf(sig["strokes"][i])) :
          "time" \in DOMAIN sig["strokes"][i]["points"][j]

RECURSIVE SampleCount(_)
\* The sum over the strokes of max(points - 1, 0).
SampleCount(strokes) ==
    IF Len(strokes) = 0 THEN 0
    ELSE Max2(Len(PointsOf(Head(strokes))) - 1, 0) + SampleCount(Tail(strokes))

RECURSIVE ClaimedSamples(_)
\* One sample for every two consecutive points of one stroke, stroke after
\* stroke: their distance divided by max(p2.t - p1.t, 1).
ClaimedSamples(strokes) ==
    IF Len(strokes) = 0 THEN <<>>
    ELSE LET points == PointsOf(Head(strokes))
         IN  [i \in 1..(Len(points) - 1) |->
                 Quot(Distance(points[i], points[i + 1]),
                      Max2(points[i + 1]["time"] - points[i]["time"], 1))]
             \o ClaimedSamples(Tail(strokes))

\* C19: the velocity features of an extracted signature are the mean, the
\* maximum, the minimum and the population standard deviation of one pool
\* that holds exactly one sample for every two consecutive points of the
\* same stroke (the sum over the strokes of max(points - 1, 0) samples, none
\* across a stroke boundary), each the distance divided by
\* max(p2.t - p1.t, 1); with an empty pool the four fields are 0.
C19_VelocityPool ==
    (features # None /\ StrokesCarryPoints /\ PointsCarryTimes) =>
       /\ ~IsRaised(features)
       /\ LET pool == ClaimedSamples(StrokesOf(sig))
              velocity == features["velocity_features"]
          IN  /\ Len(pool) = SampleCount(StrokesOf(sig))
              /\ \A i \in 1..Len(pool) : pool[i] >= 0
              /\ Len(pool) = 0 =>
                    velocity = [average_velocity |-> 0, max_velocity |-> 0,
                                min_velocity |-> 0, velocity_std |-> 0]
              /\ Len(pool) > 0 =>
                    velocity = [average_velocity |-> Mean(pool),
                                max_velocity |-> MaxSeq(pool),
                                min_velocity |-> MinSeq(pool),
                                velocity_std |-> Std(pool)]

\* C19 witness: two strokes of two points each were extracted, the first
\* with falling times and the second with equal times; both samples divide
\* a distance of 5 by 1, and the step from one stroke to the next (a
\* distance of 5 in 10 ms) is not a sample.
C19_Witness ==
    /\ features # None
    /\ sig = [strokes |->
                << [points |-> << [x |-> 3, y |-> 4, time |-> 10],
                                  [x |-> 0, y |-> 0, time |-> 0] >>],
                   [points |-> << [x |-> 3, y |-> 4, time |-> 10],
                                  [x |-> 6, y |-> 8, time |-> 10] >>] >>]
    /\ features["velocity_features"] =
          [average_velocity |-> 5 * Scale, max_velocity |-> 5 * Scale,
           min_velocity |-> 5 * Scale, velocity_std |-> 0]

(* ------------------------------- C20 ---------------------------------- *)
\* The values the points of all strokes of the signature take on one axis.
AxisValues(axis) ==
    UNION {{PointsOf(sig["strokes"][i])[j][axis] :
               j \in 1..Len(PointsOf(sig["strokes"][i]))} :
           i \in 1..Len(StrokesOf(sig))}

Lowest(S) == CHOOSE m \in S : \A n \in S : m <= n

Highest(S) == CHOOSE m \in S : \A n \in S : n <= m

\* C20: the shape features of an extracted signature are those of the
\* bounding box of the points of all strokes together: width and height
\* its sides, area their product, aspect_ratio width / height and 0 when
\* the height is 0, center_x and center_y its midpoint; width, height and
\* area are never negative; with no point every field of the shape record
\* and every shape entry of the flattened vector is 0; the example
\* signature gives width 100, height 30 and area 3000.
C20_ShapeBox ==
    (features # None /\ StrokesCarryPoints) =>
       /\ ~IsRaised(features)
       /\ LET shape == features["shape_features"]
              xs == AxisValues("x")
              ys == AxisValues("y")
          IN  /\ {"width", "height", "area", "aspect_ratio"}
                    \subseteq DOMAIN shape
              /\ xs = {} =>
                    /\ \A field \in DOMAIN shape : shape[field] = 0
                    /\ \A i \in 9..14 : flat[i] = 0
              /\ xs # {} =>
                    LET width == Highest(xs) - Lowest(xs)
                        height == Highest(ys) - Lowest(ys)
                    IN  shape =
                          [width |-> width * Scale,
                           height |-> height * Scale,
                           area |-> width * height * Scale,
                           aspect_ratio |->
                              IF height = 0 THEN 0 ELSE TrueDiv(width, height),
                           center_x |-> TrueDiv(Lowest(xs) + Highest(xs), 2),
                           center_y |-> TrueDiv(Lowest(ys) + Highest(ys), 2)]
              /\ shape["width"] >= 0
              /\ shape["height"] >= 0
              /\ shape["area"] >= 0
              /\ sig = ExampleSignature =>
                    /\ shape["width"] = 100 * Scale
                    /\ shape["height"] = 30 * Scale
                    /\ shape["area"] = 3000 * Scale

\* C20 witness: two strokes were extracted whose box needs both, the first
\* reaching left of and below the origin: 9 wide, 12 high, centred at
\* (1.5, 2).
C20_Witness ==
    /\ features # None
    /\ sig = [strokes |->
                << [points |-> << [x |-> -3, y |-> -4, time |-> 5],
                                  [x |-> 3, y |-> 4, time |-> 10] >>],
                   [points |-> << [x |-> 3, y |-> 4, time |-> 10],
                                  [x |-> 6, y |-> 8, time |-> 10] >>] >>]
    /\ features["shape_features"]["width"] = 9 * Scale
    /\ features["shape_features"]["height"] = 12 * Scale
    /\ features["shape_features"]["area"] = 108 * Scale
    /\ features["shape_features"]["aspect_ratio"] = 750
    /\ features["shape_features"]["center_x"] = 1500
    /\ features["shape_features"]["center_y"] = 2 * Scale

(* ------------------------------- C21 ---------------------------------- *)
\* The latest extraction is that of a recording that a stroke without
\* points was put into, and first is the extraction of the recording
\* before.
EmptyStrokeAdded ==
    /\ features # None
    /\ first # None
    /\ first # features

TimedStrokes ==
    SelectSeq(StrokesOf(sig),
              LAMBDA stroke : /\ "startTime" \in DOMAIN stroke
                              /\ "endTime" \in DOMAIN stroke)

\* endTime - startTime of each of them.
TimedDurations ==
    [i \in 1..Len(TimedStrokes) |->
        (TimedStrokes[i]["endTime"] - TimedStrokes[i]["startTime"]) * Scale]

\* C22: average_stroke_duration and duration_variation are the mean and the
\* population standard deviation of the durations of the strokes that carry
\* both timestamps; the two fields are absent from the stroke features
\* exactly when no stroke carries both, and the last two entries of the
\* flattened vector are then 0.
C22_TimedStrokes ==
    (features # None /\ StrokesCarryPoints) =>
       /\ ~IsRaised(features)
       /\ LET stroke == features["stroke_features"]
          IN  /\ "average_stroke_duration" \in DOMAIN stroke
                    <=> Len(TimedStrokes) > 0
              /\ "duration_variation" \in DOMAIN stroke
                    <=> Len(TimedStrokes) > 0
              /\ Len(TimedStrokes) > 0 =>
                    /\ stroke["average_stroke_duration"] = Mean(TimedDurations)
                    /\ stroke["duration_variation"] = Std(TimedDurations)
                    /\ flat[18] = Mean(TimedDurations)
                    /\ flat[19] = Std(TimedDurations)
              /\ Len(TimedStrokes) = 0 =>
                    /\ flat[18] = 0
                    /\ flat[19] = 0

\* C22 witness: of three extracted strokes the first lasts 1 ms, the second
\* carries only a startTime and the third lasts 0 ms: the average over the
\* two timed strokes is 0.5 and their deviation 0.5.
C22_Witness ==
    /\ features # None
    /\ Len(StrokesOf(sig)) = 3
    /\ StrokesCarryPoints
    /\ Len(TimedStrokes) = 2
    /\ DOMAIN sig["strokes"][2] = {"points", "startTime"}
    /\ TimedDurations = <<Scale, 0>>
    /\ features["stroke_features"]["average_stroke_duration"] = 500
    /\ features["stroke_features"]["duration_variation"] = 500

(* ------------------------------- C23 ---------------------------------- *)
\* The values one metric takes over the genuine records of user u.
MetricValues(u, group, field) ==
    LET own == OnlyGenuineOf(u)
    IN  [i \in 1..Len(own) |-> own[i]["features"][group][field]]

\* The square root of the mean of the squared deviations from the mean:
\* the population standard deviation, the divisor being the number of values.
PopulationStd(values) ==
    LET n == Len(values)
        mean == Quot(SumSeq(values), n)
        dev == [i \in 1..n |-> Abs(values[i] - mean)]
        k == (MaxSeq(dev) \div StdResolution) + 1
        squares == [i \in 1..n |-> (dev[i] \div k) * (dev[i] \div k)]
    IN  k * ISqrt(Quot(SumSeq(squares), n))

\* 1 - std / mean, and 1 when the mean is 0.
ClaimedConsistency(values) ==
    LET mean == Quot(SumSeq(values), Len(values))
    IN  IF mean = 0 THEN Scale
        ELSE Scale - TrueDiv(PopulationStd(values), mean)

\* C23: for each of the three metrics (average velocity, stroke count,
\* area) over the genuine records of one identity, the consistency that
\* analyze_consistency reports is 1 - std(values) / mean(values) with the
\* population standard deviation, and exactly 1 when the mean is 0.
C23_ConsistencyFormula ==
    [][Analyze =>
         LET u == report'["user_id"]
             result == report'["result"]
         IN  GenuineCount(u) >= 2 =>
                /\ result["velocity_consistency"] =
                      ClaimedConsistency(
                         MetricValues(u, "velocity_features", "average_velocity"))
                /\ result["stroke_count_consistency"] =
                      ClaimedConsistency(
                         MetricValues(u, "basic_stats", "stroke_count"))
                /\ result["area_consistency"] =
                      ClaimedConsistency(
                         MetricValues(u, "shape_features", "area"))]_vars

\* C23 witness: the two genuine records of an identity hold 2 strokes and
\* 1 stroke, and areas and velocities that are all 0 in the one and not in
\* the other: the stroke counts (mean 1.5, deviation 0.5) score 0.667..
\* and the report is the one of the history as it stands.
C23_Witness ==
    /\ report # None
    /\ GenuineCount(report["user_id"]) = 2
    /\ report["result"] = analyze_consistency(signatures, report["user_id"])
    /\ MetricValues(report["user_id"], "basic_stats", "stroke_count")
          \in {<<Scale, 2 * Scale>>, <<2 * Scale, Scale>>}
    /\ report["result"]["stroke_count_consistency"] = 667
    /\ report["result"]["area_consistency"] = 0

(* ------------------------------- C24 ---------------------------------- *)
\* The load a global's value came from: the timestamp of its files, 0 for
\* None.
LoadOfNames(x) == IF x = None THEN 0 ELSE x["timestamp"]

LoadOfPickle(x) == IF x = None THEN 0 ELSE x["pickle"][2]

\* C24 as stated: a predict request that has handed its diff vector to the
\* scaler used feature names, scaler and model that all came from one and
\* the same load.
C24_AsClaimed ==
    LET p == threads["predict"]
    IN  /\ "scaler" \in p["read"] =>
              LoadOfPickle(p["scaler"]) = LoadOfNames(p["names"])
        /\ "model" \in p["read"] =>
              LoadOfPickle(p["model"]) = LoadOfNames(p["names"])
        /\ "model_proba" \in p["read"] =>
              LoadOfPickle(p["model_proba"]) = LoadOfNames(p["names"])

(* ------------------------------- C25 ---------------------------------- *)
\* model, scaler and feature_names are all None, or all three set from the
\* paths and names of one model-info record.
AllOrNothing ==
    \/ model = None /\ scaler = None /\ feature_names = None
    \/ /\ model # None /\ scaler # None /\ feature_names # None
       /\ model["pickle"] = <<"model_pkl", feature_names["timestamp"]>>
       /\ scaler["pickle"] = <<"scaler", feature_names["timestamp"]>>
       /\ feature_names["names"] = FeatureNames

\* The load of the models directory as it stands would fail.
LoadFails ==
    \/ models_dir["info"] = None
    \/ models_dir["info"]["model_path"] \notin models_dir["files"]
    \/ models_dir["info"]["scaler_path"] \notin models_dir["files"]

\* C25: after the startup load and after every reload-model, model, scaler
\* and feature_names are all set from one model-info record or all None; a
\* reload whose load fails leaves all three None, whatever was loaded
\* before, and one whose load succeeds leaves all three set; while they are
\* None, health reports model_loaded false with feature_count 0 and every
\* predict answers with a failure.
C25_AllOrNothing ==
    /\ []AllOrNothing
    /\ [][/\ (ReloadModel /\ LoadFails) =>
                /\ model' = None /\ scaler' = None /\ feature_names' = None
                /\ response'["success"] = FALSE
          /\ (ReloadModel /\ ~LoadFails) =>
                /\ model' # None /\ scaler' # None /\ feature_names' # None
                /\ response'["success"] = TRUE
          /\ Health =>
                /\ response'["model_loaded"] = (model # None)
                /\ model = None => response'["feature_count"] = 0
                /\ model # None =>
                      response'["feature_count"] = Len(FeatureNames)
          /\ (PredictProbe /\ model = None) =>
                /\ response'["success"] = FALSE
                /\ response'["status"] = 500
                /\ calls' = <<>>]_vars

\* C25 witness: the models directory holds an info record whose files are
\* no longer all there, a reload has emptied the three globals, and health
\* has reported it.
C25_Witness ==
    /\ handled = "health"
    /\ models_dir["info"] # None
    /\ LoadFails
    /\ model = None /\ scaler = None /\ feature_names = None
    /\ response["model_loaded"] = FALSE
    /\ response["feature_count"] = 0

(* ------------------------------- C26 ---------------------------------- *)
\* C26 as stated: the in-memory history holds a record only when the
\* record was also written to its file, and the sample count of a report
\* counts written records only.
C26_AsClaimed ==
    /\ signatures = data_dir
    /\ (report # None /\ "sample_count" \in DOMAIN report["result"]) =>
          report["result"]["sample_count"] <=
             Len(UserSignatures(data_dir, report["user_id"]))

(* ------------------------------- C27 ---------------------------------- *)
\* The value a metrics dict holds for a feature, 0 for a feature it lacks.
MetricOrZero(metrics, name) ==
    IF name \in DOMAIN metrics THEN metrics[name] ELSE 0

\* C27: every entry of the diff vector is non-negative, whatever the
\* reference and the attempt hold, a negative reference included; a
\* feature that the stored or the current metrics lack counts as 0.
C27_NonNegativeDiffs ==
    DiffsBuilt =>
       \A i \in 1..Len(diffs) :
          LET name == FeatureNames[i]
              reference == MetricOrZero(request["stored_features"], name)
              attempt == MetricOrZero(request["current_features"], name)
          IN  /\ diffs[i] >= 0
              /\ diffs[i] =
                    IF name \in {"stroke_count", "total_points"}
                    THEN Abs(attempt - reference)
                    ELSE IF reference # 0
                    THEN (Abs(attempt - reference) * Scale) \div Abs(reference)
                    ELSE IF attempt # 0 THEN Scale ELSE 0

\* C27 witness: every stored metric is -1, center_x included, and the
\* current metrics are empty: each diff is 1.
C27_Witness ==
    /\ DiffsBuilt
    /\ "center_x" \in DOMAIN request["stored_features"]
    /\ request["stored_features"]["center_x"] = -Scale
    /\ request["current_features"] = <<>>
    /\ diffs[13] = Scale
    /\ diffs[1] = Scale

(* ------------------------------- C28 ---------------------------------- *)
\* The last analysis returned a report, not the need-more-data signal.
Reported == report # None /\ DOMAIN report["result"] = ReportKeys

\* C28: every consistency score of a report over 2 or more genuine samples,
\* whose metric values extraction never makes negative, is at most 1.  It
\* can be below 0.
C28_AtMostOne ==
    Reported =>
       /\ report["result"]["sample_count"] >= 2
       /\ \A i \in 1..Len(signatures) :
             /\ signatures[i]["features"]["velocity_features"]["average_velocity"] >= 0
             /\ signatures[i]["features"]["basic_stats"]["stroke_count"] >= 0
             /\ signatures[i]["features"]["shape_features"]["area"] >= 0
       /\ report["result"]["velocity_consistency"] <= Scale
       /\ report["result"]["stroke_count_consistency"] <= Scale
       /\ report["result"]["area_consistency"] <= Scale

\* C28 witness: three genuine samples of one identity, two of them without
\* strokes, were analysed: the deviation of their areas is above their mean
\* and the area consistency is below 0.
C28_Witness ==
    /\ Reported
    /\ report["result"] = analyze_consistency(signatures, report["user_id"])
    /\ report["result"]["sample_count"] = 3
    /\ report["result"]["area_consistency"] < 0
    /\ report["result"]["stroke_count_consistency"] < 0
    /\ report["result"]["velocity_consistency"] < 0

(* ------------------------------- C29 ---------------------------------- *)
\* The files of the training run with this timestamp.
RunFiles(timestamp) ==
    {<<"model_pkl", timestamp>>, <<"scaler", timestamp>>,
     <<"features", timestamp>>}

\* C29: latest_model_info.json is written last: whenever it names a model
\* path and a scaler path, the model, scaler and feature-names files of its
\* timestamp are in the models directory, and a load_model that reads it
\* gets all three; the step that writes it finds the three files written
\* already; a training run with fewer than 10 samples writes no file.
C29_InfoLast ==
    /\ [](models_dir["info"] # None =>
             /\ models_dir["info"]["model_path"]
                   = <<"model_pkl", models_dir["info"]["timestamp"]>>
             /\ models_dir["info"]["scaler_path"]
                   = <<"scaler", models_dir["info"]["timestamp"]>>
             /\ RunFiles(models_dir["info"]["timestamp"])
                   \subseteq models_dir["files"]
             /\ load_model(models_dir)[1] # None
             /\ load_model(models_dir)[2] # None
             /\ load_model(models_dir)[3] # None)
    /\ [][/\ models_dir'["info"] # models_dir["info"] =>
                /\ RunFiles(models_dir'["info"]["timestamp"])
                      \subseteq models_dir["files"]
                /\ models_dir'["files"] = models_dir["files"]
                /\ trainer'["pc"] = "idle"
          /\ (Train /\ trainer'["samples"] < 10) =>
                /\ models_dir' = models_dir
                /\ trainer'["pc"] = "idle"
          /\ trainer["pc"] = "idle" => models_dir' = models_dir
          /\ (ReloadModel /\ models_dir["info"] # None) =>
                /\ response'["success"] = TRUE
                /\ feature_names'["timestamp"] = models_dir["info"]["timestamp"]]_vars

\* C29 witness: the second training run has written its model and its
\* scaler and not yet its info record, which still names the files of the
\* first run, and a reload in this state has loaded the first run's
\* classifier.
C29_Witness ==
    /\ trainer["pc"] = "features"
    /\ trainer["timestamp"] = 2
    /\ models_dir["info"] # None
    /\ models_dir["info"]["timestamp"] = 1
    /\ <<"scaler", 2>> \in models_dir["files"]
    /\ handled = "reload-model"
    /\ response["success"] = TRUE
    /\ model = [pickle |-> <<"model_pkl", 1>>]

(* ------------------------------- C30 ---------------------------------- *)
\* C30 as stated: for every user and every history the user-metrics
\* endpoint answers without an error: status 'active' and the user's sample
\* count when the user has at least 3 genuine samples, and status
\* 'needs_training' otherwise, with sampleCount 0 for a user with fewer
\* than 2 genuine samples.
C30_AsClaimed ==
    [][UserMetrics =>
         LET u == request'["user_id"]
         IN  /\ "error" \notin DOMAIN response'
             /\ response'["status_code"] = 200
             /\ GenuineCount(u) >= 3 =>
                   /\ response'["status"] = "active"
                   /\ response'["sampleCount"] = GenuineCount(u)
             /\ GenuineCount(u) < 3 => response'["status"] = "needs_training"
             /\ GenuineCount(u) < 2 => response'["sampleCount"] = 0]_vars

====
